---- MODULE Spec2Model ----
(***************************************************************************)
(* Ingestion path of tiktok-rag: the crawl controller (scraper/crawl.py),  *)
(* the polite fetcher (scraper/fetch.py) and the graph exporter            *)
(* (scraper/export_graph.py).                                              *)
(*                                                                         *)
(* Strings the code slices or matches (paths, glob patterns, section text) *)
(* are sequences of one-character strings. A URL is kept in the parsed     *)
(* form urlparse gives: [scheme, host, path, query, frag], where query is  *)
(* the list of (key, value) pairs parse_qsl reads.                         *)
(* An optional value is <<>> (None) or <<x>>.                              *)
(***************************************************************************)
EXTENDS Integers, Sequences, FiniteSets, TLC

VARIABLES
    \* ---- crawl(): arguments
    start_url, max_pages, source, rules, robots, keep_query_params,
    youtube_max_depth, parser,
    \* ---- crawl(): locals
    queue, seen, queued, skipped_robots, pages, cpc,
    \* ---- crawl(): observation of the calls the loop makes
    fetch_log, enqueue_log, last_iter,
    \* ---- PoliteFetcher: the cache directory, the retry budget, one fetch() call
    cache, retries, f_pc, f_url, attempt, cached, result,
    \* ---- PoliteFetcher: observation of the last pass of the retry loop (what
    \* was sent, what came back) and, for each URL, of the last 200 response
    \* that _save_cache stored
    last_attempt, last200,
    \* ---- PoliteFetcher: the sleeps and network requests of the current
    \* fetch() call, in the order they are made, after the last of them of the
    \* call before and a mark where the current call begins
    f_log,
    \* ---- _split_text: one call, its arguments and its result, and the
    \* locals `start` and `end` of its loop
    s_text, s_max, s_overlap, s_parts, s_pc, s_start, s_end,
    \* ---- export_graph: nodes.jsonl and edges.jsonl of the output directory,
    \* the number of export calls made, and the last two calls as observed
    nodes_file, edges_file, exports, last_export, prev_export,
    \* ---- export_graph run by two processes on one output directory: for
    \* each process where its call stands, its arguments and the records it
    \* loaded
    writers

crawlVars == <<start_url, max_pages, source, rules, robots, keep_query_params,
               youtube_max_depth, parser, queue, seen, queued, skipped_robots,
               pages, cpc, fetch_log, enqueue_log, last_iter>>

fetchVars == <<cache, retries, f_pc, f_url, attempt, cached, result, last_attempt,
               last200, f_log>>

splitVars == <<s_text, s_max, s_overlap, s_parts, s_pc, s_start, s_end>>

exportVars == <<nodes_file, edges_file, exports, last_export, prev_export, writers>>

vars == <<crawlVars, fetchVars, splitVars, exportVars>>

None == <<>>
Some(x) == <<x>>
IsNone(o) == o = <<>>

Range(s) == {s[i] : i \in 1..Len(s)}

\* ------------------------------------------------------------------------
\* string helpers (str.startswith, re.sub(r"/{2,}", "/", .), str.rstrip("/"),
\* fnmatch.fnmatch)
\* ------------------------------------------------------------------------

StartsWith(s, p) ==
    /\ Len(p) <= Len(s)
    /\ \A i \in 1..Len(p) : s[i] = p[i]

EndsWith(s, c) == Len(s) > 0 /\ s[Len(s)] = c

RECURSIVE CollapseSlashes(_)
CollapseSlashes(s) ==
    IF Len(s) < 2 THEN s
    ELSE IF s[1] = "/" /\ s[2] = "/" THEN CollapseSlashes(Tail(s))
    ELSE <<s[1]>> \o CollapseSlashes(Tail(s))

RECURSIVE RStripSlash(_)
RStripSlash(s) ==
    IF EndsWith(s, "/") THEN RStripSlash(SubSeq(s, 1, Len(s) - 1)) ELSE s

\* fnmatch: "*" matches any run of characters, "?" exactly one character
RECURSIVE FnMatch(_, _)
FnMatch(s, pat) ==
    IF pat = <<>> THEN s = <<>>
    ELSE IF pat[1] = "*"
         THEN \E k \in 0..Len(s) : FnMatch(SubSeq(s, k + 1, Len(s)), Tail(pat))
    ELSE IF s = <<>> THEN FALSE
    ELSE /\ (pat[1] = "?" \/ pat[1] = s[1])
         /\ FnMatch(Tail(s), Tail(pat))

\* ------------------------------------------------------------------------
\* URLs
\* ------------------------------------------------------------------------

\* str.lower() on the host names of the model
Lower(h) == IF h = "SITE" THEN "site" ELSE h

\* a URL string, by its parts; `path` is the text between the host and the
\* "?", as written: urlparse splits it into path and params
Url(scheme, host, path, query, frag) ==
    [scheme |-> scheme, host |-> host, path |-> path, query |-> query, frag |-> frag]

\* urlparse(url).path: the text up to the first ";" of the last segment
\* (urllib.parse._splitparams); what follows the ";" is urlparse(url).params
urlparse_path(raw) ==
    LET slashes == {i \in 1..Len(raw) : raw[i] = "/"}
        last_slash == IF slashes = {} THEN 0
                      ELSE CHOOSE i \in slashes : \A j \in slashes : j <= i
        semis == {i \in (last_slash + 1)..Len(raw) : raw[i] = ";"}
    IN  IF semis = {} THEN raw
        ELSE SubSeq(raw, 1, (CHOOSE i \in semis : \A j \in semis : i <= j) - 1)

QueryKeys(q) == {q[i][1] : i \in 1..Len(q)}

RECURSIVE FilterQuery(_, _)
FilterQuery(q, keep) ==
    IF q = <<>> THEN <<>>
    ELSE IF q[1][1] \in keep THEN <<q[1]>> \o FilterQuery(Tail(q), keep)
    ELSE FilterQuery(Tail(q), keep)

\* the query string urlencode writes: k=v joined by "&"
RECURSIVE QueryStr(_)
QueryStr(q) ==
    IF q = <<>> THEN <<>>
    ELSE q[1][1] \o <<"=">> \o q[1][2]
         \o (IF Len(q) > 1 THEN <<"&">> \o QueryStr(Tail(q)) ELSE <<>>)

\* urlunparse((scheme, netloc, path, "", query, "")): the normalized path is
\* written without params
normalize_url(url, keep) ==
    LET path0 == IF urlparse_path(url.path) = <<>> THEN <<"/">> ELSE urlparse_path(url.path)
        path1 == CollapseSlashes(path0)
        path2 == IF path1 # <<"/">> /\ EndsWith(path1, "/")
                 THEN RStripSlash(path1) ELSE path1
        query == IF keep # {} THEN FilterQuery(url.query, keep) ELSE <<>>
    IN  Url("https", Lower(url.host), path2, query, FALSE)

\* the dict of the first value of every kept key, in insertion order
RECURSIVE ExtractDefaults(_, _, _)
ExtractDefaults(q, keep, acc) ==
    IF q = <<>> THEN acc
    ELSE IF q[1][1] \in keep /\ q[1][1] \notin QueryKeys(acc)
         THEN ExtractDefaults(Tail(q), keep, Append(acc, q[1]))
    ELSE ExtractDefaults(Tail(q), keep, acc)

extract_query_defaults(url, keep) ==
    IF keep = {} THEN <<>> ELSE ExtractDefaults(url.query, keep, <<>>)

apply_default_query_params(url, defaults) ==
    IF defaults = <<>> THEN url
    ELSE LET missing == FilterQuery(defaults, QueryKeys(defaults) \ QueryKeys(url.query))
         IN  [url EXCEPT !.query = url.query \o missing]

is_target_path(url, prefixes) ==
    LET path == IF urlparse_path(url.path) = <<>> THEN <<"/">> ELSE urlparse_path(url.path)
    IN  \E p \in prefixes : StartsWith(path, p)

\* RobotsRules.is_allowed_url(url, origin); origin is compared by its host
is_allowed_url(rs, url, origin_host) ==
    LET path == IF urlparse_path(url.path) = <<>> THEN <<"/">> ELSE urlparse_path(url.path)
        full == IF url.query # <<>> THEN path \o <<"?">> \o QueryStr(url.query) ELSE path
    IN  /\ url.scheme = "https"
        /\ url.host = origin_host
        /\ \E p \in rs.allow_prefixes : StartsWith(path, p)
        /\ \A pat \in rs.disallow_patterns : ~FnMatch(full, pat) /\ ~FnMatch(path, pat)

\* a checker without parser that permits nothing
can_fetch_NoParserDenies(rb, url) ==
    IF ~rb.has_parser THEN FALSE
    ELSE ~\E p \in rb.disallow : StartsWith(url.path, p)

\* RobotsCheck.can_fetch; the parser's answer is a prefix test on Disallow lines
can_fetch(rb, url) ==
    IF ~rb.has_parser THEN TRUE
    ELSE ~\E p \in rb.disallow : StartsWith(url.path, p)

\* a crawl that never asks the robots checker
RobotsBlocks_Never(rb, url) == FALSE

\* `robots and not robots.can_fetch(url)`
RobotsBlocks(rb, url) == rb.given /\ ~can_fetch(rb, url)

\* ------------------------------------------------------------------------
\* crawl(): the arguments the model calls it with, and the site it crawls
\* ------------------------------------------------------------------------

MaxPages == 2
MaxDepth == 2

\* len of the tuple parse_html returns (title, chunks, unique_links) and the
\* number of names crawl unpacks it into (title, h1, chunks, out_links)
parse_html_len == 3
unpack_len == 4

\* parse_html is the module-level name crawl() looks up at each call. The
\* repository's function returns parse_html_len values; a parser returning
\* unpack_len values is the only one under which the rest of the loop body runs.
ParserLens == {parse_html_len, unpack_len}

Sources == {"tiktok_community_guidelines", "meta_community_standards",
            "youtube_community_guidelines"}

P_g   == <<"/", "g">>
P_ga  == <<"/", "g", "/", "a">>
P_gb  == <<"/", "g", "/", "b">>
P_gc  == <<"/", "g", "/", "c">>
P_gda == <<"/", "g", "/", "d", "/", "a">>
P_x   == <<"/", "x">>

K_hl == <<"h", "l">>
V_en == <<"e", "n">>

allowed_prefixes == {P_g}

\* default_tiktok_rules(): a list of allowed prefixes and glob patterns, written
\* over the paths of the model ("*/d/*" stands for "*/directory/*")
default_tiktok_rules ==
    [allow_prefixes |-> {P_g, <<"/", "l">>},
     disallow_patterns |-> {<<"*", "/", "d", "/", "*">>, <<"/", "s", "?", "*">>}]

\* RobotsRules(allow_prefixes=list(allowed_prefixes), disallow_patterns=[])
RulesFor(src) ==
    IF src = "tiktok_community_guidelines" THEN default_tiktok_rules
    ELSE [allow_prefixes |-> allowed_prefixes, disallow_patterns |-> {}]

RobotsChoices ==
    { [given |-> FALSE, has_parser |-> FALSE, disallow |-> {}],
      [given |-> TRUE,  has_parser |-> FALSE, disallow |-> {}],
      [given |-> TRUE,  has_parser |-> TRUE,  disallow |-> {P_gb}],
      [given |-> TRUE,  has_parser |-> TRUE,  disallow |-> {P_g}] }

StartUrls ==
    { Url("https", "site", P_g, <<>>, FALSE),
      Url("https", "SITE", P_g \o <<"/">>, <<<<K_hl, V_en>>>>, FALSE),
      Url("https", "site", P_x, <<>>, FALSE) }

\* the hrefs parse_html resolves on each page of the site, in document order
SiteLinks(url) ==
    IF url.path = P_g THEN
        << Url("https", "site", P_ga, <<>>, FALSE),
           Url("http",  "SITE", <<"/", "g", "/", "/", "a", "/">>, <<>>, FALSE),
           Url("https", "site", P_gb, <<>>, TRUE),
           Url("https", "site", P_x, <<>>, FALSE),
           Url("https", "other", P_ga, <<>>, FALSE) >>
    ELSE IF url.path = P_ga THEN
        << Url("https", "site", P_g, <<>>, FALSE),
           Url("https", "site", P_ga, <<<<K_hl, V_en>>>>, FALSE),
           Url("https", "site", P_gda, <<>>, FALSE),
           Url("https", "site", P_gc, <<>>, FALSE) >>
    ELSE IF url.path = P_gb THEN
        << Url("https", "site", P_gc, <<>>, FALSE),
           Url("https", "site", P_g, <<>>, FALSE),
           Url("https", "site", P_gb \o <<";", "v", "/">>, <<>>, FALSE) >>
    ELSE IF url.path = P_gc THEN
        << Url("https", "site", P_gb, <<>>, FALSE) >>
    ELSE <<>>

Titles == { {}, {"spam"}, {"fix", "spam"} }
H1s == { {}, {"spam"} }

\* is_youtube_policy_page: a reject keyword anywhere in title, h1 or url wins,
\* else an allow keyword is needed. The model's URLs hold no keyword.
RejectKeywords == {"fix"}
AllowKeywords == {"spam"}
is_youtube_policy_page(title, h1) ==
    LET text == title \cup h1
    IN  IF text \cap RejectKeywords # {} THEN FALSE
        ELSE text \cap AllowKeywords # {}

\* what fetcher.fetch(url) may hand back: no content, an empty body, or a page
\* of the site, at the requested URL or after a redirect
FinalUrls(url) == {url, Url("https", "other", url.path \o <<"/">>, <<>>, FALSE)}

FetchResults(url) ==
    { [content |-> None, final_url |-> url],
      [content |-> Some([empty |-> TRUE, title |-> {}, h1 |-> {}, links |-> <<>>]),
       final_url |-> url] }
    \cup
    { [content |-> Some([empty |-> FALSE, title |-> t, h1 |-> h, links |-> SiteLinks(url)]),
       final_url |-> f] : t \in Titles, h \in H1s, f \in FinalUrls(url) }

\* ------------------------------------------------------------------------
\* crawl()
\* ------------------------------------------------------------------------

\* origin = urlunparse(("https", urlparse(start_url).netloc, ...)): the host of
\* the start URL as given
origin == start_url.host

default_query_params == extract_query_defaults(start_url, keep_query_params)

Norm(u) ==
    normalize_url(apply_default_query_params(u, default_query_params), keep_query_params)

normalized_start == Norm(start_url)

\* depth_limit = youtube_max_depth if source == "youtube_community_guidelines" else None
depth_limit ==
    IF source = "youtube_community_guidelines" THEN Some(youtube_max_depth) ELSE None

\* a crawl without the depth test
OverDepth_NoLimit(d) == FALSE

OverDepth(d) == ~IsNone(depth_limit) /\ d > depth_limit[1]

\* the loop guard without its page bound
LoopContinues_NoPageBound == queue # <<>>

\* a loop guard that lets one more page in
LoopContinues_OneMore == queue # <<>> /\ Len(pages) <= max_pages

\* `while queue and len(pages) < max_pages`
LoopContinues == queue # <<>> /\ Len(pages) < max_pages

\* the enqueue test without `n not in queued`
NotYetKnown_SeenOnly(n, seen_, queued_) == n \notin seen_

\* `n not in seen and n not in queued`
NotYetKnown(n, seen_, queued_) == n \notin seen_ /\ n \notin queued_

\* the unpacking `title, h1, chunks, out_links = parse_html(...)`
UnpackRaises == parser # unpack_len

\* the classifier branch: `continue` when a youtube page is not a policy page
ClassifierRejects(doc) ==
    source = "youtube_community_guidelines" /\ ~is_youtube_policy_page(doc.title, doc.h1)

\* a frontier that takes new entries at its front
Enqueue_AtFront(q, item) == <<item>> \o q

\* `queue.append((n, depth + 1))`: at the back; `queue.popleft()` takes the front
Enqueue(q, item) == Append(q, item)

\* the loop over out_links; st carries normalized_links, queue, queued,
\* skipped_robots and the URLs appended to the queue
RECURSIVE ProcessLinks(_, _, _, _)
ProcessLinks(links, depth, seen_, st) ==
    IF links = <<>> THEN st
    ELSE
      LET n == Norm(links[1])
          st1 == IF n \in Range(st.normalized_links) THEN st
                 ELSE [st EXCEPT !.normalized_links = Append(@, n)]
          st2 ==
            IF /\ NotYetKnown(n, seen_, st1.queued)
               /\ is_target_path(n, allowed_prefixes)
               /\ is_allowed_url(rules, n, origin)
            THEN IF OverDepth(depth + 1) THEN st1
                 ELSE IF RobotsBlocks(robots, n)
                      THEN [st1 EXCEPT !.skipped_robots = @ \cup {n}]
                      ELSE [st1 EXCEPT !.queue = Enqueue(@, <<n, depth + 1>>),
                                       !.queued = @ \cup {n},
                                       !.enq = Append(@, n)]
            ELSE st1
      IN ProcessLinks(Tail(links), depth, seen_, st2)

PageData(url, final_url, title, out_links) ==
    [url |-> url, final_url |-> final_url, title |-> title, out_links |-> out_links,
     source |-> source]

\* one pass of the loop body for the fetch result res (read only when the URL
\* gets as far as the fetch)
Iteration(res) ==
    LET url   == Head(queue)[1]
        depth == Head(queue)[2]
        q1    == Tail(queue)
        base  == [queue |-> q1, seen |-> seen, queued |-> queued,
                  skipped_robots |-> skipped_robots, pages |-> pages, cpc |-> "loop",
                  fetched |-> <<>>, enq |-> <<>>, outcome |-> "seen", links |-> <<>>]
        seen1 == seen \cup {url}
        in    == [base EXCEPT !.seen = seen1]
    IN  IF url \in seen THEN base
        ELSE IF OverDepth(depth) THEN [in EXCEPT !.outcome = "depth"]
        ELSE IF ~is_target_path(url, allowed_prefixes) THEN [in EXCEPT !.outcome = "path"]
        ELSE IF ~is_allowed_url(rules, url, origin) THEN [in EXCEPT !.outcome = "rules"]
        ELSE IF RobotsBlocks(robots, url)
             THEN [in EXCEPT !.outcome = "robots", !.skipped_robots = @ \cup {url}]
        ELSE
          LET f == [in EXCEPT !.fetched = <<url>>]
          IN  IF IsNone(res.content) \/ res.content[1].empty
              THEN [f EXCEPT !.outcome = "no_content"]
              ELSE
                LET doc == res.content[1]
                    final_url == Norm(res.final_url)
                IN  IF UnpackRaises THEN [f EXCEPT !.outcome = "raised", !.cpc = "raised"]
                    ELSE IF ClassifierRejects(doc)
                         THEN [f EXCEPT !.outcome = "rejected", !.links = doc.links]
                    ELSE
                      LET st == ProcessLinks(doc.links, depth, seen1,
                                  [normalized_links |-> <<>>, queue |-> q1,
                                   queued |-> queued, skipped_robots |-> skipped_robots,
                                   enq |-> <<>>])
                      IN  [f EXCEPT !.outcome = "accepted",
                                    !.links = doc.links,
                                    !.queue = st.queue,
                                    !.queued = st.queued,
                                    !.skipped_robots = st.skipped_robots,
                                    !.enq = st.enq,
                                    !.pages = Append(@, PageData(url, final_url, doc.title,
                                                                 st.normalized_links))]

CrawlConfigUnchanged ==
    UNCHANGED <<start_url, max_pages, source, rules, robots, keep_query_params,
                youtube_max_depth, parser, fetchVars, splitVars, exportVars>>

InitCrawl ==
    /\ start_url \in StartUrls
    /\ max_pages \in 0..MaxPages
    /\ source \in Sources
    /\ rules = RulesFor(source)
    /\ robots \in RobotsChoices
    /\ keep_query_params \in {{}, {K_hl}}
    /\ youtube_max_depth \in 0..MaxDepth
    /\ parser \in ParserLens
    /\ queue = << <<normalized_start, 0>> >>
    /\ seen = {}
    /\ queued = {normalized_start}
    /\ skipped_robots = {}
    /\ pages = <<>>
    /\ cpc = "loop"
    /\ fetch_log = <<>>
    /\ enqueue_log = <<normalized_start>>
    /\ last_iter = [outcome |-> "none", url |-> normalized_start, depth |-> 0,
                    links |-> <<>>, enq |-> <<>>]

CrawlIteration ==
    /\ cpc = "loop"
    /\ LoopContinues
    /\ \E res \in FetchResults(Head(queue)[1]) :
         \E r \in {Iteration(res)} :
             /\ queue' = r.queue
             /\ seen' = r.seen
             /\ queued' = r.queued
             /\ skipped_robots' = r.skipped_robots
             /\ pages' = r.pages
             /\ cpc' = r.cpc
             /\ fetch_log' = fetch_log \o r.fetched
             /\ enqueue_log' = enqueue_log \o r.enq
             /\ last_iter' = [outcome |-> r.outcome, url |-> Head(queue)[1],
                              depth |-> Head(queue)[2], links |-> r.links,
                              enq |-> r.enq]
    /\ CrawlConfigUnchanged

\* `return CrawlResult(pages=pages, skipped_robots=sorted(skipped_robots))`
CrawlReturn ==
    /\ cpc = "loop"
    /\ ~LoopContinues
    /\ cpc' = "returned"
    /\ UNCHANGED <<queue, seen, queued, skipped_robots, pages, fetch_log, enqueue_log,
                   last_iter>>
    /\ CrawlConfigUnchanged

NextCrawl == CrawlIteration \/ CrawlReturn


\* ------------------------------------------------------------------------
\* claims about crawl()
\* ------------------------------------------------------------------------

NoDuplicates(s) == \A i, j \in 1..Len(s) : i # j => s[i] # s[j]

\* the three admission checks of the loop head, for a URL
Admitted(url) ==
    /\ is_target_path(url, allowed_prefixes)
    /\ is_allowed_url(rules, url, origin)
    /\ (robots.given => can_fetch(robots, url))

\* C1: the page list crawl returns has at most max_pages pages, and the url of
\* every returned page passes the path-prefix test, the rule set's
\* is_allowed_url and, when a robots checker is given, robots.can_fetch.
C1_FrontierBound ==
    cpc = "returned" =>
        /\ Len(pages) <= max_pages
        /\ \A i \in 1..Len(pages) : Admitted(pages[i].url)

\* a crawl stopped by max_pages with work left, under a robots parser that
\* disallows part of the site
C1_Witness ==
    /\ cpc = "returned"
    /\ max_pages = 2
    /\ Len(pages) = max_pages
    /\ queue # <<>>
    /\ robots.given /\ robots.has_parser

\* C2: within one crawl no URL is handed to fetcher.fetch twice, no URL is
\* appended to the frontier twice (the seed is its own single enqueue), and no
\* two returned pages have the same url.
C2_FetchedAndEnqueuedOnce ==
    /\ NoDuplicates(fetch_log)
    /\ NoDuplicates(enqueue_log)
    /\ \A i, j \in 1..Len(pages) : i # j => pages[i].url # pages[j].url

\* two pages returned, the later one linking back to the earlier one
C2_Witness ==
    /\ cpc = "returned"
    /\ Len(pages) >= 2
    /\ pages[1].url \in Range(pages[2].out_links)
    /\ Len(fetch_log) >= 2
    /\ Len(enqueue_log) >= 3

\* C9: when the classifier rejects a fetched and parsed page, each of its
\* links that passes the admission filters is in the frontier bookkeeping
\* afterwards (it was known before, or it is enqueued now), as for an
\* accepted page.
C9_RejectedPageLinksEnqueued ==
    last_iter.outcome = "rejected" =>
        \A i \in 1..Len(last_iter.links) :
            LET n == Norm(last_iter.links[i])
            IN  (/\ is_target_path(n, allowed_prefixes)
                 /\ is_allowed_url(rules, n, origin)
                 /\ ~OverDepth(last_iter.depth + 1)
                 /\ ~RobotsBlocks(robots, n)) => n \in queued

\* C10: crawl() is never aborted by one page; whatever a fetch returns, the
\* loop goes on and the call ends by returning.
C10_CrawlNeverAborts == cpc # "raised"

\* the outcomes of a pass of the loop in which fetcher.fetch was called
FetchedOutcomes == {"no_content", "raised", "rejected", "accepted"}

\* the link n of the page just accepted passes every test of the link loop
\* but the depth test
LinkAdmitted(n) ==
    /\ is_target_path(n, allowed_prefixes)
    /\ is_allowed_url(rules, n, origin)
    /\ ~RobotsBlocks(robots, n)

Disallowed(url) == robots.given /\ ~can_fetch(robots, url)

PassesPathAndRules(url) ==
    is_target_path(url, allowed_prefixes) /\ is_allowed_url(rules, url, origin)

\* what C19 says of fetches, returned pages, the skipped_robots list and the
\* crawl going on
RobotsKeptOut ==
    /\ \A i \in 1..Len(fetch_log) : ~Disallowed(fetch_log[i])
    /\ \A i \in 1..Len(pages) : ~Disallowed(pages[i].url)
    /\ \A u \in skipped_robots : Disallowed(u) /\ PassesPathAndRules(u)
    /\ last_iter.outcome = "robots" =>
          /\ Disallowed(last_iter.url)
          /\ last_iter.url \in skipped_robots
          /\ cpc \in {"loop", "returned"}

\* C19 as stated: a disallowed URL is never fetched, never enqueued, never
\* returned as a page; it is listed in skipped_robots whenever it is met and
\* passes the path and rule tests; only such URLs are listed; and the crawl
\* goes on.
C19_RobotsDisallowedNeverEnqueued ==
    /\ RobotsKeptOut
    /\ \A k \in 1..Len(enqueue_log) : ~Disallowed(enqueue_log[k])
    /\ last_iter.outcome = "accepted" =>
          \A i \in 1..Len(last_iter.links) :
              LET n == Norm(last_iter.links[i])
              IN  (Disallowed(n) /\ PassesPathAndRules(n)) => n \in skipped_robots

\* C19 (amended): as stated, except that the seed is placed in the frontier
\* unchecked (a disallowed seed is skipped when it is taken from the queue),
\* so only the URLs enqueued from links are never disallowed ones; and that a
\* disallowed link beyond the depth limit is dropped for its depth without
\* being listed in skipped_robots.
C19_RobotsDisallowedNeverEnqueuedFromLinks ==
    /\ RobotsKeptOut
    /\ \A k \in 2..Len(enqueue_log) : ~Disallowed(enqueue_log[k])
    /\ last_iter.outcome = "accepted" =>
          \A i \in 1..Len(last_iter.links) :
              LET n == Norm(last_iter.links[i])
              IN  (Disallowed(n) /\ PassesPathAndRules(n)
                     /\ ~OverDepth(last_iter.depth + 1)) => n \in skipped_robots

\* a crawl under a robots parser that disallows /g/b has returned two pages:
\* /g/b was met as a link, listed as skipped, never fetched, and the crawl
\* went on to fetch and return a later page
C19_Witness ==
    /\ cpc = "returned"
    /\ robots.given /\ robots.has_parser /\ robots.disallow = {P_gb}
    /\ Len(pages) = 2
    /\ \E u \in skipped_robots : u.path = P_gb /\ u \notin Range(fetch_log)
    /\ Len(fetch_log) >= 2

\* C25: on a finite site with link cycles, with a fetcher whose calls return,
\* every crawl leaves its loop; when it returns, the frontier is empty or
\* exactly max_pages pages were accepted, and never more; a pass of the loop
\* that does not accept its URL (seen, filtered, no content, rejected) leaves
\* the page list as it was and an accepting pass adds one page.
C25_CrawlTerminates ==
    /\ <>(cpc # "loop")
    /\ [](cpc = "returned" =>
            /\ Len(pages) <= max_pages
            /\ queue = <<>> \/ Len(pages) = max_pages)
    /\ [][(cpc = "loop" /\ queue' # queue) =>
            IF last_iter'.outcome = "accepted"
            THEN Len(pages') = Len(pages) + 1
            ELSE pages' = pages]_vars

\* a crawl that returned with two pages accepted, URLs left in the frontier,
\* and more URLs fetched than pages accepted
C25_Witness ==
    /\ cpc = "returned"
    /\ max_pages = MaxPages
    /\ Len(pages) = max_pages
    /\ queue # <<>>
    /\ Len(fetch_log) > Len(pages)

\* the last pass of the loop took a URL through the admission checks, got
\* non-empty content for it, and no classifier stood in its way: the pass
\* accepted it, or it got as far as the parser for a source without classifier
PassedEveryCheck ==
    \/ last_iter.outcome = "accepted"
    \/ last_iter.outcome = "raised" /\ source # "youtube_community_guidelines"

\* C30: a frontier URL that passes the path, rule and robots checks, whose
\* fetch returns non-empty content and that the classifier (if any) accepts
\* is appended to the pages as a PageData carrying that url, and the crawl
\* goes on to return them.
C30_AcceptedUrlIsAppended ==
    PassedEveryCheck =>
        /\ pages # <<>>
        /\ pages[Len(pages)].url = last_iter.url
        /\ cpc # "raised"

\* the position of x in a list that holds it
PosIn(s, x) == CHOOSE k \in 1..Len(s) : s[k] = x

\* the elements of a are in b, in the same relative order
InOrderOf(a, b) ==
    /\ \A i \in 1..Len(a) : a[i] \in Range(b)
    /\ \A i, j \in 1..Len(a) : i < j => PosIn(b, a[i]) < PosIn(b, a[j])

\* this step is a pass of the loop
LoopPass == cpc = "loop" /\ queue' # queue

\* the fetch result res is one this pass may have been given: it leads to the
\* outcome observed and, for an accepted page, to the title and final_url
\* the page carries
ConsistentWithPass(res, it) ==
    /\ it.outcome = last_iter'.outcome
    /\ it.outcome = "accepted" => it.pages[Len(it.pages)] = pages'[Len(pages')]

\* C31: the depths in the queue never decrease from front to back and differ
\* by at most 1; the URLs are fetched in the order they were enqueued; the
\* passes of the loop, and so the pages they append, come in non-decreasing
\* depth; an accepted URL is appended at the end of the pages; and what a
\* pass leaves (queue, pages, seen, queued) is fixed by the state before it
\* and the fetch result it was given.
C31_FifoBreadthFirst ==
    /\ [](\A i, j \in 1..Len(queue) :
            i < j => queue[i][2] <= queue[j][2] /\ queue[j][2] <= queue[i][2] + 1)
    /\ [](InOrderOf(fetch_log, enqueue_log))
    /\ [][LoopPass =>
            /\ last_iter'.depth >= last_iter.depth
            /\ \A i \in 1..Len(queue') : queue'[i][2] >= last_iter'.depth
            /\ last_iter'.outcome = "accepted" =>
                  /\ pages' = Append(pages, pages'[Len(pages')])
                  /\ pages'[Len(pages')].url = last_iter'.url
            /\ \A res \in FetchResults(Head(queue)[1]) :
                  \A it \in {Iteration(res)} :
                      ConsistentWithPass(res, it) =>
                          /\ queue' = it.queue
                          /\ pages' = it.pages
                          /\ seen' = it.seen
                          /\ queued' = it.queued]_vars

\* a crawl that returned two pages, the seed and a page it links to, and left
\* in its queue URLs of depth 1 and of depth 2
C31_Witness ==
    /\ cpc = "returned"
    /\ Len(pages) = 2
    /\ pages[1].url = normalized_start
    /\ Len(fetch_log) >= 2
    /\ Len(queue) >= 2
    /\ queue[1][2] < queue[Len(queue)][2]

\* C32: every returned page's final_url is on the host of the start URL and
\* passes the path-prefix test and the rule set's is_allowed_url, the checks
\* the page's url passed.
C32_FinalUrlAdmitted ==
    cpc = "returned" =>
        \A i \in 1..Len(pages) :
            /\ pages[i].final_url.host = Lower(start_url.host)
            /\ is_target_path(pages[i].final_url, allowed_prefixes)
            /\ is_allowed_url(rules, pages[i].final_url, origin)

\* C33: the crawl does not depend on the letter case of the start URL's host:
\* in every pass of the loop and at the return, the normalized seed has the
\* host of the origin derived from the start URL, and is_allowed_url admits it
\* against that origin exactly when it admits it against the origin of the
\* lower-case start URL.
C33_SeedHostCaseInsensitive ==
    last_iter.outcome # "none" =>
        /\ normalized_start.host = origin
        /\ is_allowed_url(rules, normalized_start, origin)
             = is_allowed_url(rules, normalized_start, Lower(origin))

\* the normal form: https, lower-case host, no "//" in the path, no "/" at the
\* end of a path other than "/", no fragment, whitelisted query keys only
IsNormalForm(u, keep) ==
    /\ u.scheme = "https"
    /\ u.host = Lower(u.host)
    /\ u.path # <<>>
    /\ \A i \in 1..(Len(u.path) - 1) : ~(u.path[i] = "/" /\ u.path[i + 1] = "/")
    /\ (u.path = <<"/">> \/ ~EndsWith(u.path, "/"))
    /\ ~u.frag
    /\ QueryKeys(u.query) \subseteq keep

\* the URLs the crawl holds: in the frontier, in seen, as the url of a page and
\* in the out_links of a page
HeldUrls ==
    {queue[i][1] : i \in 1..Len(queue)} \cup seen
    \cup {pages[i].url : i \in 1..Len(pages)}
    \cup UNION {Range(pages[i].out_links) : i \in 1..Len(pages)}

\* the URLs the crawl has normalized in the last pass, and the start URL
RawUrls == {start_url} \cup Range(last_iter.links)

\* C37: normalize_url is idempotent and gives an https URL with a lower-case
\* host, no duplicate slashes, no trailing slash except for the root path, no
\* fragment and whitelisted query parameters only; every URL in the frontier,
\* in seen, as the url of a returned page and in the out_links of a page is in
\* this form and is left unchanged by normalize_url, and no out_links holds a
\* URL twice.
C37_NormalizedUrls ==
    /\ \A raw \in RawUrls :
          /\ normalize_url(normalize_url(raw, keep_query_params), keep_query_params)
                = normalize_url(raw, keep_query_params)
          /\ IsNormalForm(normalize_url(raw, keep_query_params), keep_query_params)
          /\ normalize_url(Norm(raw), keep_query_params) = Norm(raw)
    /\ \A u \in HeldUrls :
          /\ IsNormalForm(u, keep_query_params)
          /\ normalize_url(u, keep_query_params) = u
    /\ \A i \in 1..Len(pages) : NoDuplicates(pages[i].out_links)


\* no robots checker was given, or the one given has no parser
NoRobotsParser == ~robots.given \/ ~robots.has_parser

\* C39: when crawl is given no robots checker, or a checker without parser
\* (robots.txt could not be loaded), the robots check permits every URL: no
\* URL is recorded as robots-skipped, a URL taken from the queue that is new,
\* within the depth limit and passes the path-prefix and rule-set tests is
\* fetched, and a link of an accepted page that passes these tests within the
\* depth limit is enqueued.
C39_NoParserPermitsEverything ==
    NoRobotsParser =>
        /\ skipped_robots = {}
        /\ last_iter.outcome # "robots"
        /\ (last_iter.outcome \notin {"none", "seen", "depth"}
                /\ PassesPathAndRules(last_iter.url))
              => /\ fetch_log # <<>>
                 /\ fetch_log[Len(fetch_log)] = last_iter.url
        /\ last_iter.outcome = "accepted" =>
              \A i \in 1..Len(last_iter.links) :
                  LET n == Norm(last_iter.links[i])
                  IN  (PassesPathAndRules(n) /\ ~OverDepth(last_iter.depth + 1))
                      => n \in Range(enqueue_log)

\* a crawl given a checker without parser has fetched and returned /g/b, which
\* the robots.txt of the model disallows
C39_Witness ==
    /\ cpc = "returned"
    /\ robots.given /\ ~robots.has_parser
    /\ Len(pages) = 2
    /\ \E i \in 1..Len(pages) : pages[i].url.path = P_gb
    /\ Len(enqueue_log) >= 4

\* ------------------------------------------------------------------------
\* PoliteFetcher (scraper/fetch.py)
\* ------------------------------------------------------------------------

MaxRetries == 2

\* URLs as the fetcher sees them: opaque strings; "r" is a redirect target.
\* The cache key is sha1(url): one entry per requested URL.
FUrls == {"u1", "u2"}
Bodies == {"", "A", "B"}
Statuses == {200, 304, 404, 429, 500}

\* what the two cache files of a URL can hold
Entry(kind, content, etag, last_modified, final_url) ==
    [kind |-> kind, content |-> content, etag |-> etag,
     last_modified |-> last_modified, final_url |-> final_url]

NoEntry(kind) == Entry(kind, "", None, None, "")

\* missing: a file is absent; unreadable: open/read fails with OSError;
\* bad_json: the metadata is not JSON; undecodable: a file is not UTF-8;
\* not_object: the metadata is JSON but not an object
BrokenKinds == {"missing", "unreadable", "bad_json", "undecodable", "not_object"}

\* _load_cache: None when a file is missing or OSError / JSONDecodeError is
\* caught; the other errors leave the function
load_cache(e) ==
    IF e.kind = "ok" THEN [raises |-> FALSE, value |-> Some(e)]
    ELSE IF e.kind \in {"undecodable", "not_object"} THEN [raises |-> TRUE, value |-> None]
    ELSE [raises |-> FALSE, value |-> None]

\* the cache write that keeps the validators already stored
save_cache_KeepValidators(c, url, content, resp) ==
    [c EXCEPT ![url] = Entry("ok", content, c[url].etag, c[url].last_modified, resp.url)]

\* _save_cache: body and validators of the response, under the requested URL
save_cache(c, url, content, resp) ==
    [c EXCEPT ![url] = Entry("ok", content, resp.etag, resp.last_modified, resp.url)]

\* conditional headers that carry the ETag only
conditional_headers_EtagOnly(cd) ==
    IF IsNone(cd) THEN [if_none_match |-> None, if_modified_since |-> None]
    ELSE [if_none_match |-> cd[1].etag, if_modified_since |-> None]

\* the conditional headers built from the loaded entry
conditional_headers(cd) ==
    IF IsNone(cd) THEN [if_none_match |-> None, if_modified_since |-> None]
    ELSE [if_none_match |-> cd[1].etag, if_modified_since |-> cd[1].last_modified]

FetchResult(url, final_url, status_code, content, from_cache, error) ==
    [url |-> url, final_url |-> final_url, status_code |-> status_code,
     content |-> content, from_cache |-> from_cache, error |-> error]

\* the result of the 304 branch
CachedResult(url, cd, status) ==
    FetchResult(url, cd.final_url, Some(status), Some(cd.content), TRUE, None)

\* a response result that keeps the body only of a 200
ResponseResult_BodyOnlyOn200(url, resp) ==
    FetchResult(url, resp.url, Some(resp.status),
                IF resp.status = 200 THEN Some(resp.text) ELSE None, FALSE, None)

\* the result built from a response that is neither 304-with-cache nor retryable
ResponseResult(url, resp) ==
    FetchResult(url, resp.url, Some(resp.status), Some(resp.text), FALSE, None)

\* the result of the except branch and of the fall-through return
ErrorResult(url, msg) ==
    FetchResult(url, url, None, None, FALSE, Some(msg))

\* `status >= 500 or status == 429`
Retryable(status) == status >= 500 \/ status = 429

\* session.get either raises (exc) or yields a response
Responses(url) ==
    { [exc |-> TRUE, status |-> 0, text |-> "", etag |-> None, last_modified |-> None,
       url |-> url] }
    \cup
    { [exc |-> FALSE, status |-> st, text |-> b, etag |-> e, last_modified |-> m,
       url |-> u] :
        st \in Statuses, b \in Bodies, e \in {None, Some("e1")},
        m \in {None, Some("m1")}, u \in {url, "r"} }

InitialEntries ==
    {NoEntry(k) : k \in BrokenKinds} \cup {Entry("ok", "A", Some("e1"), None, "u1")}

\* body and validators of a 200 response
Stored(content, etag, last_modified) ==
    [content |-> content, etag |-> etag, last_modified |-> last_modified]

\* the cache files are written by _save_cache only: a well-formed entry found
\* in the directory is what the last stored 200 response of an earlier run left
StoredBy(e) ==
    IF e.kind = "ok" THEN Some(Stored(e.content, e.etag, e.last_modified)) ELSE None

\* PoliteFetcher(backoff_factor=1.0), the default; the CLI passes none
backoff_factor == 1

\* a backoff that does not grow with the attempt
backoff_Constant(a) == backoff_factor

\* `backoff = self.backoff_factor * (2 ** attempt)`, the part of the sleep of
\* the except branch that is not jitter
backoff(a) == backoff_factor * (2 ^ a)

\* the events of f_log: _sleep_delay() sleeping random.uniform(min_delay,
\* max_delay); session.get; the sleep of the except branch (backoff plus
\* random.uniform(0, 0.5)); the start of a fetch() call
DelayEvent == <<"delay">>
RequestEvent == <<"request">>
BackoffEvent(a) == <<"backoff", backoff(a)>>
CallMark == <<"call">>

\* a pass that sleeps before the first request of a call only
PassEvents_DelayFirstOnly(a) ==
    IF a = 0 THEN <<DelayEvent, RequestEvent>> ELSE <<RequestEvent>>

\* what pass `a` of the loop does up to the response: self._sleep_delay(),
\* then self.session.get(...)
PassEvents(a) == <<DelayEvent, RequestEvent>>

\* the last sleep or request made so far, if any
LastEvent(log) ==
    IF log = <<>> \/ log[Len(log)] = CallMark THEN <<>> ELSE <<log[Len(log)]>>

\* no pass of the loop made yet in this call
NoAttempt ==
    [kind |-> "none", status |-> 0, attempt |-> 0, sent |-> conditional_headers(None)]

InitFetch ==
    /\ cache \in [FUrls -> InitialEntries]
    /\ retries \in -1..MaxRetries
    /\ f_pc = "idle"
    /\ f_url = "u1"
    /\ attempt = 0
    /\ cached = None
    /\ result = None
    /\ last_attempt = NoAttempt
    /\ last200 = [u \in FUrls |-> StoredBy(cache[u])]
    /\ f_log = <<>>

FetcherUnused ==
    /\ cache = [u \in FUrls |-> NoEntry("missing")]
    /\ retries = 0
    /\ f_pc = "idle"
    /\ f_url = "u1"
    /\ attempt = 0
    /\ cached = None
    /\ result = None
    /\ last_attempt = NoAttempt
    /\ last200 = [u \in FUrls |-> StoredBy(cache[u])]
    /\ f_log = <<>>

\* fetch(url) up to the loop: load the cache entry; with a negative retry
\* budget the loop body never runs and the final return is reached
FetchCall ==
    /\ f_pc = "idle"
    /\ \E url \in FUrls :
         LET l == load_cache(cache[url])
         IN  /\ f_url' = url
             /\ attempt' = 0
             /\ cached' = l.value
             /\ IF l.raises THEN f_pc' = "raised" /\ result' = None
                ELSE IF retries < 0
                     THEN f_pc' = "returned" /\ result' = Some(ErrorResult(url, "unknown failure"))
                     ELSE f_pc' = "attempt" /\ result' = None
    /\ last_attempt' = NoAttempt
    /\ f_log' = LastEvent(f_log) \o <<CallMark>>
    /\ UNCHANGED <<cache, retries, last200, crawlVars, splitVars, exportVars>>

\* the except branch: give up on the last attempt, else back off (sleep) and
\* go on
Except(msg) ==
    IF attempt >= retries
    THEN /\ f_pc' = "returned"
         /\ result' = Some(ErrorResult(f_url, msg))
         /\ attempt' = attempt
         /\ f_log' = f_log \o PassEvents(attempt)
    ELSE /\ f_pc' = "attempt"
         /\ result' = None
         /\ attempt' = attempt + 1
         /\ f_log' = f_log \o PassEvents(attempt) \o <<BackoffEvent(attempt)>>

\* how one pass of the loop ends: session.get raised; 304 answered from the
\* cache entry; a 5xx / 429 raised as retryable; _save_cache raised on a 200;
\* or the response is returned
AttemptKind(resp, save_ok) ==
    IF resp.exc THEN "exception"
    ELSE IF resp.status = 304 /\ ~IsNone(cached) THEN "cached"
    ELSE IF Retryable(resp.status) THEN "retryable"
    ELSE IF resp.status = 200 /\ ~save_ok THEN "save_failed"
    ELSE "response"

\* one pass of `for attempt in range(self.retries + 1)`; save_ok is whether
\* _save_cache, called for a 200 response only, writes both files
FetchAttempt ==
    /\ f_pc = "attempt"
    /\ \E resp \in Responses(f_url) :
       \E save_ok \in (IF ~resp.exc /\ resp.status = 200 THEN BOOLEAN ELSE {TRUE}) :
       /\ last_attempt' = [kind |-> AttemptKind(resp, save_ok), status |-> resp.status,
                           attempt |-> attempt, sent |-> conditional_headers(cached)]
       /\ last200' = IF AttemptKind(resp, save_ok) = "response" /\ resp.status = 200
                     THEN [last200 EXCEPT ![f_url] = Some(Stored(resp.text, resp.etag,
                                                               resp.last_modified))]
                     ELSE last200
       /\ IF resp.exc THEN Except("exc") /\ UNCHANGED cache
         ELSE IF resp.status = 304 /\ ~IsNone(cached)
              THEN /\ f_pc' = "returned"
                   /\ result' = Some(CachedResult(f_url, cached[1], resp.status))
                   /\ f_log' = f_log \o PassEvents(attempt)
                   /\ UNCHANGED <<cache, attempt>>
         ELSE IF Retryable(resp.status) THEN Except("retryable status") /\ UNCHANGED cache
         ELSE IF resp.status = 200 /\ ~save_ok
              THEN Except("save failed") /\ UNCHANGED cache
         ELSE /\ f_pc' = "returned"
              /\ result' = Some(ResponseResult(f_url, resp))
              /\ cache' = IF resp.status = 200
                          THEN save_cache(cache, f_url, resp.text, resp) ELSE cache
              /\ f_log' = f_log \o PassEvents(attempt)
              /\ UNCHANGED attempt
    /\ UNCHANGED <<retries, f_url, cached, crawlVars, splitVars, exportVars>>

\* the caller has the result (or the exception); the fetcher is free again
FetchDone ==
    /\ f_pc \in {"returned", "raised"}
    /\ f_pc' = "idle"
    /\ result' = None
    /\ cached' = None
    /\ attempt' = 0
    /\ last_attempt' = NoAttempt
    /\ UNCHANGED <<cache, retries, f_url, last200, f_log, crawlVars, splitVars,
                   exportVars>>

NextFetch == FetchCall \/ FetchAttempt \/ FetchDone

CrawlerUnused ==
    /\ start_url = Url("https", "site", P_g, <<>>, FALSE)
    /\ max_pages = 0
    /\ source = "tiktok_community_guidelines"
    /\ rules = RulesFor(source)
    /\ robots = [given |-> FALSE, has_parser |-> FALSE, disallow |-> {}]
    /\ keep_query_params = {}
    /\ youtube_max_depth = 0
    /\ parser = parse_html_len
    /\ queue = <<>>
    /\ seen = {}
    /\ queued = {}
    /\ skipped_robots = {}
    /\ pages = <<>>
    /\ cpc = "idle"
    /\ fetch_log = <<>>
    /\ enqueue_log = <<>>
    /\ last_iter = [outcome |-> "none", url |-> start_url, depth |-> 0, links |-> <<>>,
                    enq |-> <<>>]


\* C5: every FetchResult fetch returns has exactly one of content and error
\* present (not None), on every path.
C5_ContentXorError ==
    f_pc = "returned" =>
        /\ ~IsNone(result)
        /\ IsNone(result[1].content) # IsNone(result[1].error)

\* a 304 answered from the cache after a failed first attempt
C5_Witness ==
    /\ f_pc = "returned"
    /\ result[1].from_cache
    /\ attempt >= 1
    /\ IsNone(result[1].error)
    /\ ~IsNone(result[1].content)

\* a 4xx status other than 429
NonRetryableErrorStatus(status) == status \in 400..499 /\ status # 429

\* C11: a fetch that ends on a non-retryable HTTP error status (a 4xx other
\* than 429) returns a FetchResult with error populated.
C11_NonRetryableStatusIsError ==
    (/\ f_pc = "returned"
     /\ ~IsNone(result[1].status_code)
     /\ NonRetryableErrorStatus(result[1].status_code[1])) =>
        ~IsNone(result[1].error)

\* the call has ended with error populated and content absent
EndedWithError ==
    /\ f_pc = "returned"
    /\ ~IsNone(result[1].error)
    /\ IsNone(result[1].content)

\* the call goes on with the pass after the one observed
Retried == f_pc = "attempt" /\ attempt = last_attempt.attempt + 1

\* C12: a 5xx or 429 response is retried while attempts remain; a retryable
\* failure on the last attempt, and any other failure of an attempt (the
\* request raising: DNS, connect, timeout), ends the fetch with error
\* populated and content absent.
C12_OnlyRetryableStatusRetried ==
    /\ (last_attempt.kind = "retryable" /\ last_attempt.attempt < retries) => Retried
    /\ (last_attempt.kind = "retryable" /\ last_attempt.attempt >= retries) => EndedWithError
    /\ last_attempt.kind = "exception" => EndedWithError

\* this step is a pass of the loop of fetch(u) that received a 200 response
\* and wrote it to the cache
Stores200(u) ==
    /\ f_pc = "attempt" /\ f_url = u
    /\ last_attempt'.kind = "response" /\ last_attempt'.status = 200

\* the entry e holds the body and the validators of the 200 response r
Holds(e, r) ==
    /\ e.kind = "ok"
    /\ e.content = r.content
    /\ e.etag = r.etag
    /\ e.last_modified = r.last_modified

EntryEtag(e) == IF e.kind = "ok" THEN e.etag ELSE None
EntryLastModified(e) == IF e.kind = "ok" THEN e.last_modified ELSE None

CallEvents ==
    IF f_log = <<>> THEN <<>>
    ELSE LET mark == CHOOSE i \in 1..Len(f_log) : f_log[i] = CallMark
         IN  SubSeq(f_log, mark + 1, Len(f_log))

\* the positions of the network requests in a list of events
RequestsIn(events) == {i \in 1..Len(events) : events[i] = RequestEvent}

C27_DelayBeforeEveryRequest ==
    /\ \A i \in RequestsIn(CallEvents) : i > 1 /\ CallEvents[i - 1] = DelayEvent
    /\ \A i, j \in RequestsIn(f_log) :
          i < j => \E k \in (i + 1)..(j - 1) : f_log[k] = DelayEvent

\* a fetch of u1 that comes after fetches that ended with a request (one of
\* them stored a 200 for u2) and that is in its second pass after a backoff
C27_Witness ==
    /\ f_url = "u1"
    /\ last200["u2"] = Some(Stored("B", None, None))
    /\ Len(f_log) = 7
    /\ f_log[1] = RequestEvent
    /\ f_log[2] = CallMark
    /\ f_log[5][1] = "backoff"
    /\ f_log[7] = RequestEvent

\* C28: a fetch of a URL whose cache entry is corrupt or unreadable in any way
\* (a file missing, unreadable or not decodable, metadata that is not JSON or
\* not a JSON object) raises nothing, sends its requests without conditional
\* headers and returns a FetchResult.
C28_CorruptCacheIsMiss ==
    /\ f_pc # "raised"
    /\ (f_pc = "attempt" /\ cache[f_url].kind \in BrokenKinds) =>
          /\ IsNone(cached)
          /\ last_attempt.kind # "none" => last_attempt.sent = conditional_headers(None)
    /\ f_pc = "returned" => ~IsNone(result)

\* ------------------------------------------------------------------------
\* _split_text (scraper/export_graph.py)
\* ------------------------------------------------------------------------

MaxTextLen == 4
MaxChunk == 3
MaxOverlap == 3

TextChars == {"a", "b", " "}

Min(a, b) == IF a <= b THEN a ELSE b
Max(a, b) == IF a >= b THEN a ELSE b

\* text[start:end] with 0-based start and exclusive end
Slice(text, start, end) == SubSeq(text, start + 1, end)

\* an overlap that may be as long as a piece
EffectiveOverlap_UpToMax(max_chars, overlap_chars) == Max(0, Min(overlap_chars, max_chars))

\* `overlap = max(0, min(overlap_chars, max_chars - 1))`
EffectiveOverlap(max_chars, overlap_chars) == Max(0, Min(overlap_chars, max_chars - 1))

\* a piece end one character too far
PieceEnd_OffByOne(start, max_chars, len) == Min(start + max_chars + 1, len)

\* `end = min(start + max_chars, len(text))`
PieceEnd(start, max_chars, len) == Min(start + max_chars, len)

\* the while loop of _split_text from position start
RECURSIVE SplitFrom(_, _, _, _)
SplitFrom(text, start, max_chars, overlap) ==
    IF ~(start < Len(text)) THEN <<>>
    ELSE LET end == PieceEnd(start, max_chars, Len(text))
         IN  <<Slice(text, start, end)>>
             \o (IF end >= Len(text) THEN <<>>
                 ELSE SplitFrom(text, end - overlap, max_chars, overlap))

split_text(text, max_chars, overlap_chars) ==
    IF max_chars <= 0 THEN <<text>>
    ELSE IF Len(text) <= max_chars THEN <<text>>
    ELSE SplitFrom(text, 0, max_chars, EffectiveOverlap(max_chars, overlap_chars))

Texts == UNION {[1..n -> TextChars] : n \in 0..MaxTextLen}

InitSplit ==
    /\ s_text \in Texts
    /\ s_max \in 0..MaxChunk
    /\ s_overlap \in -1..MaxOverlap
    /\ s_parts = <<>>
    /\ s_pc = "call"
    /\ s_start = 0
    /\ s_end = 0

SplitterUnused ==
    /\ s_text = <<>>
    /\ s_max = 0
    /\ s_overlap = 0
    /\ s_parts = <<>>
    /\ s_pc = "idle"
    /\ s_start = 0
    /\ s_end = 0

\* the call _split_text(s_text, s_max, s_overlap)
SplitText ==
    /\ s_pc = "call"
    /\ s_parts' = split_text(s_text, s_max, s_overlap)
    /\ s_pc' = "done"
    /\ UNCHANGED <<s_text, s_max, s_overlap, s_start, s_end, crawlVars, fetchVars,
                   exportVars>>

NextSplit == SplitText

\* ---- the same call, one pass of its loop at a time

\* the passes the model lets one call make
MaxPasses == MaxTextLen + 2

\* the two early returns, or `parts = []; start = 0`
SplitEnter ==
    /\ s_pc = "call"
    /\ IF s_max <= 0 \/ Len(s_text) <= s_max
       THEN s_parts' = <<s_text>> /\ s_pc' = "done"
       ELSE s_parts' = <<>> /\ s_pc' = "loop"
    /\ UNCHANGED <<s_text, s_max, s_overlap, s_start, s_end, crawlVars, fetchVars,
                   exportVars>>

\* one pass of `while start < len(text)`, or the exit of the loop
SplitPass ==
    /\ s_pc = "loop"
    /\ Len(s_parts) < MaxPasses
    /\ IF ~(s_start < Len(s_text))
       THEN s_pc' = "done" /\ UNCHANGED <<s_parts, s_start, s_end>>
       ELSE LET end == PieceEnd(s_start, s_max, Len(s_text))
            IN  /\ s_parts' = Append(s_parts, Slice(s_text, s_start, end))
                /\ s_end' = end
                /\ IF end >= Len(s_text)
                   THEN s_pc' = "done" /\ s_start' = s_start
                   ELSE /\ s_pc' = "loop"
                        /\ s_start' = end - EffectiveOverlap(s_max, s_overlap)
    /\ UNCHANGED <<s_text, s_max, s_overlap, crawlVars, fetchVars, exportVars>>

NextSplitLoop == SplitEnter \/ SplitPass

\* the first piece followed by every later piece without its first k characters
RECURSIVE Rebuild(_, _)
Rebuild(parts, k) ==
    IF parts = <<>> THEN <<>>
    ELSE IF Len(parts) = 1 THEN parts[1]
    ELSE Rebuild(SubSeq(parts, 1, Len(parts) - 1), k)
         \o SubSeq(parts[Len(parts)], k + 1, Len(parts[Len(parts)]))

\* the last k characters of p are the first k characters of q
SharesK(p, q, k) ==
    /\ k <= Len(p) /\ k <= Len(q)
    /\ SubSeq(p, Len(p) - k + 1, Len(p)) = SubSeq(q, 1, k)

\* C8: for max_chunk_chars >= 1 and overlap_chars >= 0 every piece has at most
\* max_chunk_chars characters, adjacent pieces share k <= overlap_chars
\* characters, and the first piece followed by each later piece without its
\* shared first k characters is the text.
C8_SplittingLaw ==
    (s_pc = "done" /\ s_max >= 1 /\ s_overlap >= 0) =>
        /\ \A i \in 1..Len(s_parts) : Len(s_parts[i]) <= s_max
        /\ \E k \in 0..s_overlap :
             /\ \A i \in 2..Len(s_parts) : SharesK(s_parts[i - 1], s_parts[i], k)
             /\ Rebuild(s_parts, k) = s_text

\* a text cut into three pieces that overlap by one character
C8_Witness ==
    /\ s_pc = "done"
    /\ s_max = 2
    /\ s_overlap = 1
    /\ Len(s_text) = 4
    /\ Len(s_parts) = 3
    /\ s_text[1] # s_text[2] /\ s_text[2] # s_text[3]

IsSpace(c) == c = " "

\* number of characters of s_text before piece i: each pass of the loop moves
\* start by max_chars - overlap
PieceStart(i) == (i - 1) * (s_max - EffectiveOverlap(s_max, s_overlap))

\* the cut after piece i lies between two characters of one word
CutMidWord(i) ==
    LET cut == PieceStart(i) + Len(s_parts[i])
    IN  /\ cut < Len(s_text)
        /\ ~IsSpace(s_text[cut]) /\ ~IsSpace(s_text[cut + 1])

\* the window piece i was cut from holds a whitespace character
WindowHasSpace(i) == \E j \in 1..Len(s_parts[i]) : IsSpace(s_parts[i][j])

\* C13: when a text longer than max_chunk_chars is split, a cut falls inside a
\* word only when its window holds no whitespace at all.
C13_NoCutMidWordWhenAvoidable ==
    (s_pc = "done" /\ s_max >= 1 /\ s_overlap >= 0 /\ Len(s_text) > s_max) =>
        \A i \in 1..(Len(s_parts) - 1) : CutMidWord(i) => ~WindowHasSpace(i)

\* C38 as stated: the number of pieces never exceeds the length of the text.
C38_PiecesAtMostTextLength ==
    s_pc = "done" => Len(s_parts) <= Len(s_text)

\* a pass that appends a piece to pieces there are
LaterPiece == s_pc = "loop" /\ s_parts # <<>> /\ s_parts' # s_parts

\* C38: _split_text returns for every text, every max_chunk_chars and every
\* overlap_chars (overlap_chars >= max_chunk_chars, negative overlap_chars and
\* max_chunk_chars <= 0 among them): every piece after the first ends after
\* the end of the piece before it, so the number of pieces is at most the
\* length of the text, or one when the text is empty; the pieces returned are
\* those of split_text.
C38_SplitterTerminates ==
    /\ <>(s_pc = "done")
    /\ [][LaterPiece => s_end' > s_end /\ s_end' <= Len(s_text)]_vars
    /\ [](Len(s_parts) <= Max(1, Len(s_text)))
    /\ [](s_pc = "loop" => Len(s_parts) < MaxPasses)
    /\ [](s_pc = "done" => s_parts = split_text(s_text, s_max, s_overlap))

\* a text of four characters cut into three pieces under an overlap_chars
\* beyond max_chunk_chars
C38_Witness ==
    /\ s_pc = "done"
    /\ s_max = 2
    /\ s_overlap = 3
    /\ Len(s_text) = 4
    /\ Len(s_parts) = 3
    /\ s_end = 4

\* ------------------------------------------------------------------------
\* export_graph (scraper/export_graph.py)
\* ------------------------------------------------------------------------

MaxExports == 3

\* str(order)
Digits == <<"0", "1", "2", "3", "4", "5", "6", "7", "8", "9">>
RECURSIVE ToStr(_)
ToStr(n) == IF n < 10 THEN <<Digits[n + 1]>> ELSE ToStr(n \div 10) \o <<Digits[(n % 10) + 1]>>

\* a SHA-1 hex digest, as a function of the hashed characters that never maps
\* two different inputs to one digest
sha1(chars) == <<"sha1(">> \o chars \o <<")">>

\* the parts as the hash reads them: joined by "|"
RECURSIVE JoinParts(_)
JoinParts(parts) ==
    IF Len(parts) = 1 THEN parts[1]
    ELSE parts[1] \o <<"|">> \o JoinParts(Tail(parts))

sha1_id(parts) == sha1(JoinParts(parts))
text_sha1(text) == sha1(text)

\* _split_chunks: every section's text split, `order` counted over the page
RECURSIVE SplitChunks(_, _, _, _)
SplitChunks(chunks, max_chunk_chars, overlap_chars, order) ==
    IF chunks = <<>> THEN <<>>
    ELSE LET texts == split_text(chunks[1].text, max_chunk_chars, overlap_chars)
             these == [i \in 1..Len(texts) |->
                         [heading |-> chunks[1].heading, order |-> order + i - 1,
                          text |-> texts[i]]]
         IN  these \o SplitChunks(Tail(chunks), max_chunk_chars, overlap_chars,
                                  order + Len(texts))

split_chunks(chunks, max_chunk_chars, overlap_chars) ==
    SplitChunks(chunks, max_chunk_chars, overlap_chars, 0)

\* a node record; the fields a node type does not carry are empty
Node(id, type, url, title, heading, order, text, src, retrieved_at) ==
    [id |-> id, type |-> type, url |-> url, title |-> title, heading |-> heading,
     order |-> order, text |-> text, source |-> src, retrieved_at |-> retrieved_at]

Edge(type, src_id, target_id) ==
    [id |-> sha1_id(<< <<type>>, src_id, target_id >>), type |-> type,
     source |-> src_id, target |-> target_id]

PageId(url) == sha1_id(<< <<"PAGE">>, url >>)

\* a section id that leaves the page url out
SectionId_HeadingOnly(url, heading) == sha1_id(<< <<"SECTION">>, heading >>)

SectionId(url, heading) == sha1_id(<< <<"SECTION">>, url, heading >>)
ChunkId(url, heading, order, text) ==
    sha1_id(<< <<"CHUNK">>, url, heading, ToStr(order), text_sha1(text) >>)

\* the records of a list whose id no earlier record of the list has, in order
FirstById(records) ==
    LET keep == {i \in 1..Len(records) :
                    \A j \in 1..(i - 1) : records[j].id # records[i].id}
        pos == [i \in keep |-> Cardinality({j \in keep : j < i}) + 1]
    IN  [k \in 1..Cardinality(keep) |-> records[CHOOSE i \in keep : pos[i] = k]]

\* the merge branch: the persisted records, each id once, the first one kept
LoadExisting(existing) == FirstById(existing)

\* every candidate appended whether or not its id is held
AppendNew_NoDedup(held, candidates) == held \o candidates

\* a candidate whose id is held replaces the held record
AppendNew_Overwrite(held, candidates) ==
    LET all == held \o candidates
        last(id) == CHOOSE i \in 1..Len(all) :
                        all[i].id = id /\ \A j \in (i + 1)..Len(all) : all[j].id # id
        firsts == FirstById(all)
    IN  [k \in 1..Len(firsts) |-> all[last(firsts[k].id)]]

\* a candidate is dropped only when its id came from the file: the ids added
\* by this call are not remembered
AppendNew_FileIdsOnly(held, candidates) ==
    LET NotHeld(c) == c.id \notin {held[i].id : i \in 1..Len(held)}
    IN  held \o SelectSeq(candidates, NotHeld)

\* `if id not in ids: list.append(record); ids.add(id)` for each candidate in
\* the order the loops produce them: a candidate whose id is already held,
\* from the file or from this call, is dropped
AppendNew(held, candidates) == FirstById(held \o candidates)

RECURSIVE Flatten(_)
Flatten(seqs) == IF seqs = <<>> THEN <<>> ELSE seqs[1] \o Flatten(Tail(seqs))

\* `section_ids.get(heading) is None`: no earlier chunk of the page has the heading
FirstOfHeading(page_chunks, i) ==
    \A j \in 1..(i - 1) : page_chunks[j].heading # page_chunks[i].heading

\* a chunk id that also hashes the title of the page
ChunkIdAt_WithTitle(page, page_chunks, i) ==
    ChunkId(page.url \o <<"#">> \o page.title, page_chunks[i].heading,
            page_chunks[i].order, page_chunks[i].text)

ChunkIdAt(page, page_chunks, i) ==
    ChunkId(page.url, page_chunks[i].heading, page_chunks[i].order, page_chunks[i].text)

\* a prev_chunk_id that stays at the first chunk of the page
PrevChunkId_FirstOfPage(page, page_chunks, i) ==
    IF i = 1 THEN None ELSE Some(ChunkIdAt(page, page_chunks, 1))

\* prev_chunk_id when chunk i is handled: set by the chunk before it on the page
PrevChunkId(page, page_chunks, i) ==
    IF i = 1 THEN None ELSE Some(ChunkIdAt(page, page_chunks, i - 1))

\* the node records the loop body offers for chunk i of the page
NodesOfChunk(page, page_chunks, i, retrieved_at) ==
    LET chunk == page_chunks[i]
    IN  (IF FirstOfHeading(page_chunks, i)
         THEN << Node(SectionId(page.url, chunk.heading), "SECTION", page.url, <<>>,
                      chunk.heading, -1, <<>>, page.source, retrieved_at) >>
         ELSE <<>>)
        \o << Node(ChunkIdAt(page, page_chunks, i), "CHUNK", page.url, page.title,
                   chunk.heading, chunk.order, chunk.text, page.source, retrieved_at) >>

\* the edge records the loop body offers for chunk i of the page
EdgesOfChunk(page, page_chunks, i) ==
    LET chunk == page_chunks[i]
        section_id == SectionId(page.url, chunk.heading)
        chunk_id == ChunkIdAt(page, page_chunks, i)
        prev_chunk_id == PrevChunkId(page, page_chunks, i)
    IN  (IF FirstOfHeading(page_chunks, i)
         THEN << Edge("PAGE_CONTAINS_SECTION", PageId(page.url), section_id) >>
         ELSE <<>>)
        \o << Edge("SECTION_CONTAINS_CHUNK", section_id, chunk_id) >>
        \o (IF IsNone(prev_chunk_id) THEN <<>>
            ELSE << Edge("NEXT_CHUNK", prev_chunk_id[1], chunk_id) >>)

\* a first loop that writes the SECTION and CHUNK nodes of a page and not its
\* PAGE node
NodesOfPage_NoPageNode(page, max_chunk_chars, overlap_chars, retrieved_at) ==
    LET page_chunks == split_chunks(page.chunks, max_chunk_chars, overlap_chars)
    IN  Flatten([i \in 1..Len(page_chunks) |->
                   NodesOfChunk(page, page_chunks, i, retrieved_at)])

\* the first loop over pages, for one page: the PAGE node, then its chunks
NodesOfPage(page, max_chunk_chars, overlap_chars, retrieved_at) ==
    LET page_chunks == split_chunks(page.chunks, max_chunk_chars, overlap_chars)
    IN  << Node(PageId(page.url), "PAGE", page.url, page.title, <<>>, -1, <<>>,
                page.source, retrieved_at) >>
        \o Flatten([i \in 1..Len(page_chunks) |->
                      NodesOfChunk(page, page_chunks, i, retrieved_at)])

EdgesOfPage(page, max_chunk_chars, overlap_chars) ==
    LET page_chunks == split_chunks(page.chunks, max_chunk_chars, overlap_chars)
    IN  Flatten([i \in 1..Len(page_chunks) |-> EdgesOfChunk(page, page_chunks, i)])

\* a link loop that writes an edge for every out_link
LinkEdgesOfPage_EveryLink(page, urls) ==
    [i \in 1..Len(page.out_links) |->
        Edge("PAGE_LINKS_TO_PAGE", PageId(page.url), PageId(page.out_links[i]))]

\* the second loop over pages, for one page: a PAGE_LINKS_TO_PAGE edge for
\* every out_link that is the url of a page of this call
LinkEdgesOfPage(page, urls) ==
    Flatten([i \in 1..Len(page.out_links) |->
               IF page.out_links[i] \in urls
               THEN << Edge("PAGE_LINKS_TO_PAGE", PageId(page.url),
                            PageId(page.out_links[i])) >>
               ELSE <<>>])

CountType(records, type) == Cardinality({i \in 1..Len(records) : records[i].type = type})

NodeTypes == {"PAGE", "SECTION", "CHUNK"}
EdgeTypes == {"PAGE_CONTAINS_SECTION", "SECTION_CONTAINS_CHUNK", "NEXT_CHUNK",
              "PAGE_LINKS_TO_PAGE"}

\* the dict export_graph returns
Counts(nodes, edges) ==
    [nodes |-> Len(nodes), edges |-> Len(edges),
     node_types |-> [t \in NodeTypes |-> CountType(nodes, t)],
     edge_types |-> [t \in EdgeTypes |-> CountType(edges, t)]]

\* an export that loads the persisted records whenever it does not append
Merging_UnlessAppend(merge_existing, append) == ~append

\* an export that always loads the persisted records
Merging_Always(merge_existing, append) == TRUE

\* `if merge_existing and not append`
Merging(merge_existing, append) == merge_existing /\ ~append

\* the records the call starts from: those of the file when it merges
LoadedRecords(file, merge_existing, append) ==
    IF Merging(merge_existing, append) THEN LoadExisting(file) ELSE <<>>

\* a node list built on the file as it is when the loops are over, not on the
\* list loaded at the start of the call
NodesFrom_FileAtWrite(nodes0, page_list, max_chunk_chars, overlap_chars, retrieved_at) ==
    AppendNew(LoadExisting(nodes_file),
        Flatten([i \in 1..Len(page_list) |->
                   NodesOfPage(page_list[i], max_chunk_chars, overlap_chars, retrieved_at)]))

\* the node list when the loops are over, from the list they started with
NodesFrom(nodes0, page_list, max_chunk_chars, overlap_chars, retrieved_at) ==
    AppendNew(nodes0,
        Flatten([i \in 1..Len(page_list) |->
                   NodesOfPage(page_list[i], max_chunk_chars, overlap_chars, retrieved_at)]))

\* the edge list when the loops are over, from the list they started with
EdgesFrom(edges0, page_list, max_chunk_chars, overlap_chars) ==
    LET urls == {page_list[i].url : i \in 1..Len(page_list)}
    IN  AppendNew(edges0,
            Flatten([i \in 1..Len(page_list) |->
                       EdgesOfPage(page_list[i], max_chunk_chars, overlap_chars)])
            \o Flatten([i \in 1..Len(page_list) |-> LinkEdgesOfPage(page_list[i], urls)]))

\* export_graph(pages, ..., merge_existing, append): the two files as it
\* leaves them and the counts it returns
export_graph(page_list, max_chunk_chars, overlap_chars, retrieved_at, merge_existing, append) ==
    LET nodes0 == LoadedRecords(nodes_file, merge_existing, append)
        edges0 == LoadedRecords(edges_file, merge_existing, append)
        nodes == NodesFrom(nodes0, page_list, max_chunk_chars, overlap_chars, retrieved_at)
        edges == EdgesFrom(edges0, page_list, max_chunk_chars, overlap_chars)
    IN  [nodes_file |-> IF append THEN nodes_file \o nodes ELSE nodes,
         edges_file |-> IF append THEN edges_file \o edges ELSE edges,
         counts |-> Counts(nodes, edges)]

\* ---- the calls the model makes

Str1(x) == <<x>>

Chunk(heading, text) == [heading |-> Str1(heading), text |-> text]

Page(url, title, chunks, out_links) ==
    [url |-> Str1(url), title |-> Str1(title), chunks |-> chunks,
     out_links |-> out_links, source |-> "tiktok_community_guidelines"]

\* one page with two sections of one short paragraph each
PageA == Page("u1", "T1", << Chunk("H1", <<"a", "b">>), Chunk("H2", <<"c", "d">>) >>,
              << Str1("u2"), Str1("u9") >>)

\* the same page after its title and its second section changed
PageA2 == Page("u1", "T2", << Chunk("H1", <<"a", "b">>), Chunk("H2", <<"c", "d", "e">>) >>,
               << Str1("u2") >>)

\* a page with one long section, linking back and twice to the same page
PageB == Page("u2", "T3", << Chunk("H1", <<"a", " ", "b", " ", "c">>) >>,
              << Str1("u1"), Str1("u1") >>)

\* a page whose first heading comes back after another section, linking to a
\* page it is never exported with
PageC == Page("u3", "T4", << Chunk("H1", <<"a", "b">>), Chunk("H2", <<"c", "d">>),
                             Chunk("H1", <<"e", "f">>) >>, << Str1("u2") >>)

PageLists == { <<PageA>>, <<PageA, PageB>>, <<PageA2>>, <<PageC, PageA, PageC>> }

\* (max_chunk_chars, overlap_chars): nothing is split, or texts are cut in
\* pieces of two characters that overlap by one
ChunkParams == { <<1000, 200>>, <<2, 1>> }

\* fresh: merge_existing = False, append = False; merge: the default;
\* append: append = True (the CLI passes merge_existing = not append)
Modes == {"fresh", "merge", "append"}

RetrievedAt(n) == Str1(ToStr(n)[1])

\* two processes that may run export_graph on the same directory
Writers == {1, 2}

\* a process that has not called export_graph
NotCalled == [pc |-> "idle", pages |-> <<>>, params |-> <<0, 0>>, at |-> 0,
              nodes0 |-> <<>>, edges0 |-> <<>>]

\* the ids a file holds
Ids(records) == {records[i].id : i \in 1..Len(records)}

InitExport ==
    /\ nodes_file = <<>>
    /\ edges_file = <<>>
    /\ exports = 0
    /\ last_export = [mode |-> "none", pages |-> <<>>, params |-> <<0, 0>>,
                      counts |-> Counts(<<>>, <<>>), node_ids |-> {}, edge_ids |-> {}]
    /\ prev_export = last_export
    /\ writers = [p \in Writers |-> NotCalled]

ExporterUnused == InitExport

\* one call of export_graph with a page list and chunk parameters of `calls`
\* and a mode of `modes`
ExportCallOf(calls, modes) ==
    /\ exports < MaxExports
    /\ \E call \in calls, mode \in modes :
         LET page_list == call[1]
             prm == call[2]
         IN  \E r \in {export_graph(page_list, prm[1], prm[2], RetrievedAt(exports),
                                    mode = "merge", mode = "append")} :
                /\ nodes_file' = r.nodes_file
                /\ edges_file' = r.edges_file
                /\ prev_export' = last_export
                /\ last_export' = [mode |-> mode, pages |-> page_list, params |-> prm,
                                   counts |-> r.counts,
                                   node_ids |-> Ids(r.nodes_file),
                                   edge_ids |-> Ids(r.edges_file)]
    /\ exports' = exports + 1
    /\ UNCHANGED <<writers, crawlVars, fetchVars, splitVars>>

ExportCall(modes) == ExportCallOf(PageLists \X ChunkParams, modes)

Export == ExportCall(Modes)

ExportFreshOrMerge == ExportCall({"fresh", "merge"})

NextExport == Export

NextExportFreshOrMerge == ExportFreshOrMerge

\* ---- exports of pages that have one section

\* a text of n characters
TextOfLen(n) == [i \in 1..n |-> "x"]

\* one section of 5000 characters
PageLong == Page("u4", "T5", << Chunk("H1", TextOfLen(5000)) >>, <<>>)

\* one section of seven characters, and one of a text that is not split
PageD == Page("u5", "T6", << Chunk("H1", <<"a", "b", " ", "c", "d", " ", "e">>) >>,
              << Str1("u2") >>)
PageE == Page("u6", "T7", << Chunk("H2", <<"a">>) >>, <<>>)

OneSectionCalls ==
    { << <<PageLong>>, <<2000, 200>> >>,
      << <<PageB, PageLong>>, <<2000, 200>> >>,
      << <<PageB>>, <<2, 1>> >>,
      << <<PageD, PageB>>, <<2, 1>> >>,
      << <<PageD, PageE>>, <<3, 0>> >>,
      << <<PageE>>, <<1000, 200>> >> }

ExportOneSection == ExportCallOf(OneSectionCalls, {"fresh", "merge"})

NextExportOneSection == ExportOneSection

\* ---- exports of a page before and after one of its sections changed

\* a page of two sections, and the same page after its first section grew
PageF == Page("u7", "T8", << Chunk("H1", <<"a", "b">>), Chunk("H2", <<"c", "d">>) >>, <<>>)
PageF2 == Page("u7", "T8", << Chunk("H1", <<"a", "b", "c">>), Chunk("H2", <<"c", "d">>) >>,
               <<>>)

SectionChangeCalls == { <<PageF>>, <<PageF2>>, <<PageA>>, <<PageA2>> } \X ChunkParams

ExportSectionChange == ExportCallOf(SectionChangeCalls, {"fresh", "merge"})

NextExportSectionChange == ExportSectionChange

\* ---- export_graph in merge mode, run by two processes: the load of the
\* files and the writing of the files are two steps, and steps of the other
\* process may come between them

\* the calls begun and not finished
Loaded == {p \in Writers : writers[p].pc = "loaded"}

\* process p calls export_graph(pages, merge_existing=True, append=False) and
\* reads the two files; `at` is the number of exports written by then, and
\* stands for the time of the call (retrieved_at)
WriterLoad(p) ==
    /\ writers[p].pc # "loaded"
    /\ exports + Cardinality(Loaded) < MaxExports
    /\ \E page_list \in PageLists, prm \in ChunkParams :
         writers' = [writers EXCEPT ![p] =
                       [pc |-> "loaded", pages |-> page_list, params |-> prm,
                        at |-> exports,
                        nodes0 |-> LoadedRecords(nodes_file, TRUE, FALSE),
                        edges0 |-> LoadedRecords(edges_file, TRUE, FALSE)]]
    /\ UNCHANGED <<nodes_file, edges_file, exports, last_export, prev_export,
                   crawlVars, fetchVars, splitVars>>

\* process p runs its loops on the records it loaded and writes both files
\* in mode "w"
WriterWrite(p) ==
    /\ writers[p].pc = "loaded"
    /\ LET w == writers[p]
       IN  /\ nodes_file' = NodesFrom(w.nodes0, w.pages, w.params[1], w.params[2],
                                      RetrievedAt(w.at))
           /\ edges_file' = EdgesFrom(w.edges0, w.pages, w.params[1], w.params[2])
           /\ writers' = [writers EXCEPT ![p] =
                            [w EXCEPT !.pc = "done", !.nodes0 = <<>>, !.edges0 = <<>>]]
    /\ exports' = exports + 1
    /\ UNCHANGED <<last_export, prev_export, crawlVars, fetchVars, splitVars>>

NextExportConcurrent == \E p \in Writers : WriterLoad(p) \/ WriterWrite(p)

\* ------------------------------------------------------------------------
\* claims about export_graph
\* ------------------------------------------------------------------------

SameCall(a, b) == a.pages = b.pages /\ a.params = b.params

\* C3: a merge export repeated with the same page list and chunk parameters
\* returns the same counts (totals and per type) and leaves the same persisted
\* node and edge ids as the first of the two.
C3_MergeTwiceSameCounts ==
    (last_export.mode = "merge" /\ prev_export.mode = "merge"
        /\ SameCall(last_export, prev_export)) =>
        /\ last_export.counts = prev_export.counts
        /\ last_export.node_ids = prev_export.node_ids
        /\ last_export.edge_ids = prev_export.edge_ids

\* two pages with split text merged twice over a directory that an append
\* export had filled before
C3_Witness ==
    /\ exports = 3
    /\ last_export.mode = "merge" /\ prev_export.mode = "merge"
    /\ SameCall(last_export, prev_export)
    /\ last_export.pages = <<PageA, PageB>>
    /\ last_export.params = <<2, 1>>
    /\ last_export.counts.nodes > 11
    /\ last_export.counts.edge_types["NEXT_CHUNK"] >= 4

MergeStep == last_export'.mode = "merge" /\ exports' = exports + 1

\* the record before[i] is in `after`, unchanged
StillPersisted(before, after, i) == \E k \in 1..Len(after) : after[k] = before[i]

\* C4 as stated: a merge export keeps every persisted node and edge record,
\* unchanged.
C4_MergeKeepsEveryRecord ==
    [][MergeStep =>
         /\ \A i \in 1..Len(nodes_file) : StillPersisted(nodes_file, nodes_file', i)
         /\ \A i \in 1..Len(edges_file) : StillPersisted(edges_file, edges_file', i)]_vars

\* before[i] is the first record of its id, it is in `after` unchanged, and
\* `after` holds no other record of that id
FirstKept(before, after, i) ==
    (\A j \in 1..(i - 1) : before[j].id # before[i].id) =>
        \E k \in 1..Len(after) :
            /\ after[k] = before[i]
            /\ \A m \in 1..Len(after) : m # k => after[m].id # before[i].id

\* C4 (amended): a merge export keeps, for every persisted id, the first
\* persisted record of that id unchanged and as the only record of that id:
\* a newly derived record of a persisted id is dropped, not written over it,
\* and later persisted records that repeat an id are dropped.
C4_MergeKeepsFirstRecordOfEachId ==
    [][MergeStep =>
         /\ \A i \in 1..Len(nodes_file) : FirstKept(nodes_file, nodes_file', i)
         /\ \A i \in 1..Len(edges_file) : FirstKept(edges_file, edges_file', i)]_vars

\* page u1 was persisted with title T1; a merge of its changed version (title
\* T2) has run and the T1 record is still the one persisted
C4_Witness ==
    /\ last_export.mode = "merge"
    /\ last_export.pages = <<PageA2>>
    /\ prev_export.mode # "none"
    /\ \E i \in 1..Len(nodes_file) :
         /\ nodes_file[i].type = "PAGE"
         /\ nodes_file[i].url = PageA.url
         /\ nodes_file[i].title = PageA.title
         /\ nodes_file[i].retrieved_at # RetrievedAt(exports - 1)

\* the edges of a type into a node
EdgesInto(type, id) ==
    {k \in 1..Len(edges_file) : edges_file[k].type = type /\ edges_file[k].target = id}

HasNode(type, id) ==
    \E j \in 1..Len(nodes_file) : nodes_file[j].type = type /\ nodes_file[j].id = id

OneParent(id, edge_type, parent_type) ==
    /\ Cardinality(EdgesInto(edge_type, id)) = 1
    /\ \A k \in EdgesInto(edge_type, id) : HasNode(parent_type, edges_file[k].source)

\* C6: after any sequence of fresh and merge exports from empty storage, every
\* persisted CHUNK has exactly one SECTION_CONTAINS_CHUNK edge into it, from a
\* persisted SECTION, and every persisted SECTION exactly one
\* PAGE_CONTAINS_SECTION edge into it, from a persisted PAGE.
C6_Containment ==
    \A i \in 1..Len(nodes_file) :
        /\ nodes_file[i].type = "CHUNK" =>
              OneParent(nodes_file[i].id, "SECTION_CONTAINS_CHUNK", "SECTION")
        /\ nodes_file[i].type = "SECTION" =>
              OneParent(nodes_file[i].id, "PAGE_CONTAINS_SECTION", "PAGE")

\* two merges of different page lists, with the same headings on several
\* pages and chunks of a changed section beside the old ones
C6_Witness ==
    /\ exports = 3
    /\ last_export.mode = "merge" /\ prev_export.mode = "merge"
    /\ last_export.pages = <<PageA2>>
    /\ prev_export.pages = <<PageC, PageA, PageC>>
    /\ CountType(nodes_file, "SECTION") >= 4
    /\ CountType(nodes_file, "CHUNK") >= 6

ChunkNode(id) ==
    CHOOSE n \in {nodes_file[j] : j \in 1..Len(nodes_file)} : n.type = "CHUNK" /\ n.id = id

\* C7: every persisted NEXT_CHUNK edge joins two chunks of the same section
\* (same page url and heading) that follow one another in split order; a page
\* whose sections give one chunk each has no NEXT_CHUNK edge.
C7_NextChunkWithinSection ==
    \A k \in 1..Len(edges_file) :
        edges_file[k].type = "NEXT_CHUNK" =>
            /\ HasNode("CHUNK", edges_file[k].source)
            /\ HasNode("CHUNK", edges_file[k].target)
            /\ LET a == ChunkNode(edges_file[k].source)
                   b == ChunkNode(edges_file[k].target)
               IN  /\ a.url = b.url
                   /\ a.heading = b.heading
                   /\ b.order = a.order + 1

\* the persisted CHUNK nodes of the section (url, heading)
ChunksOfSection(url, heading) ==
    {k \in 1..Len(nodes_file) :
        /\ nodes_file[k].type = "CHUNK"
        /\ nodes_file[k].url = url
        /\ nodes_file[k].heading = heading}

\* C14: after one export into empty storage, the order values of the chunks of
\* one section are contiguous: between two chunks of a section every order
\* value is the order of a chunk of that section.
C14_OrderContiguousInSection ==
    exports = 1 =>
        \A i, j \in 1..Len(nodes_file) :
            (/\ nodes_file[i].type = "CHUNK"
             /\ j \in ChunksOfSection(nodes_file[i].url, nodes_file[i].heading)
             /\ nodes_file[i].order < nodes_file[j].order) =>
                \A n \in nodes_file[i].order..nodes_file[j].order :
                    \E k \in ChunksOfSection(nodes_file[i].url, nodes_file[i].heading) :
                        nodes_file[k].order = n

\* chunk nodes i and j belong to one section and no chunk of that section has
\* an order between theirs
AdjacentInSection(i, j) ==
    /\ nodes_file[i].type = "CHUNK"
    /\ j \in ChunksOfSection(nodes_file[i].url, nodes_file[i].heading)
    /\ nodes_file[i].order < nodes_file[j].order
    /\ \A k \in ChunksOfSection(nodes_file[i].url, nodes_file[i].heading) :
           ~(nodes_file[i].order < nodes_file[k].order
             /\ nodes_file[k].order < nodes_file[j].order)

HasEdge(type, src_id, target_id) ==
    \E k \in 1..Len(edges_file) :
        /\ edges_file[k].type = type
        /\ edges_file[k].source = src_id
        /\ edges_file[k].target = target_id

\* C15: after one export into empty storage, for every two chunks of one
\* section that follow one another in the order of that section, a NEXT_CHUNK
\* edge from the earlier to the later is persisted, whether or not headings
\* repeat within the page.
C15_NextChunkForAdjacentInSection ==
    exports = 1 =>
        \A i, j \in 1..Len(nodes_file) :
            AdjacentInSection(i, j) =>
                HasEdge("NEXT_CHUNK", nodes_file[i].id, nodes_file[j].id)

\* the edge records this export step writes: the lines it appends in append
\* mode, the records of ids not persisted before in merge mode, the whole
\* file in fresh mode
WrittenEdges ==
    IF last_export'.mode = "append"
    THEN {edges_file'[k] : k \in (Len(edges_file) + 1)..Len(edges_file')}
    ELSE IF last_export'.mode = "merge"
    THEN {edges_file'[k] : k \in {m \in 1..Len(edges_file') :
                                     edges_file'[m].id \notin Ids(edges_file)}}
    ELSE Range(edges_file')

\* the ids of the pages in the page list of this export step
CallPageIds == {PageId(last_export'.pages[i].url) : i \in 1..Len(last_export'.pages)}

\* C20: every PAGE_LINKS_TO_PAGE edge an export writes has as source and as
\* target the id of a page of the page list of that call; a link to a URL
\* outside the list gives no edge, also when a PAGE of that URL is persisted.
C20_LinkEdgesWithinCall ==
    [][exports' = exports + 1 =>
          \A e \in WrittenEdges :
              e.type = "PAGE_LINKS_TO_PAGE" =>
                  e.source \in CallPageIds /\ e.target \in CallPageIds]_vars

\* pages u1 and u2 were exported together and link to each other; a later
\* merge of pages u3 and u1 has run, u3 links to u2, the PAGE of u2 is
\* persisted, and no edge from u3 to u2 is
C20_Witness ==
    /\ last_export.mode = "merge"
    /\ last_export.pages = <<PageC, PageA, PageC>>
    /\ prev_export.pages = <<PageA, PageB>>
    /\ HasNode("PAGE", PageId(PageB.url))
    /\ HasEdge("PAGE_LINKS_TO_PAGE", PageId(PageA.url), PageId(PageB.url))
    /\ HasEdge("PAGE_LINKS_TO_PAGE", PageId(PageB.url), PageId(PageA.url))
    /\ ~HasEdge("PAGE_LINKS_TO_PAGE", PageId(PageC.url), PageId(PageB.url))

\* the node records export_graph derives from the pages of this export step,
\* as a set
DerivedNodes ==
    UNION {Range(NodesOfPage(last_export'.pages[i], last_export'.params[1],
                             last_export'.params[2], RetrievedAt(exports))) :
             i \in 1..Len(last_export'.pages)}

\* the edge records export_graph derives from the pages of this export step
DerivedEdges ==
    UNION {Range(EdgesOfPage(last_export'.pages[i], last_export'.params[1],
                             last_export'.params[2]))
             \cup Range(LinkEdgesOfPage(last_export'.pages[i],
                                        {last_export'.pages[j].url :
                                           j \in 1..Len(last_export'.pages)})) :
             i \in 1..Len(last_export'.pages)}

\* no two records of the list have the same id
DistinctIds(records) ==
    \A i, j \in 1..Len(records) : i # j => records[i].id # records[j].id

\* C21: after a fresh export the node and edge files hold exactly the records
\* derived from the pages of that call, each once, and nothing that was
\* persisted before.
C21_FreshHoldsOnlyNewRecords ==
    [][(exports' = exports + 1 /\ last_export'.mode = "fresh") =>
          /\ Range(nodes_file') = DerivedNodes
          /\ Range(edges_file') = DerivedEdges
          /\ DistinctIds(nodes_file') /\ DistinctIds(edges_file')]_vars

\* pages u1 and u2 were persisted; a fresh export of the changed page u1 has
\* run and the files hold page u1 with its new title only
C21_Witness ==
    /\ last_export.mode = "fresh"
    /\ last_export.pages = <<PageA2>>
    /\ prev_export.pages = <<PageA, PageB>>
    /\ ~HasNode("PAGE", PageId(PageB.url))
    /\ \A i \in 1..Len(nodes_file) :
          nodes_file[i].url = PageA2.url /\ nodes_file[i].retrieved_at = RetrievedAt(exports - 1)
    /\ \E i \in 1..Len(nodes_file) :
          nodes_file[i].type = "PAGE" /\ nodes_file[i].title = PageA2.title
    /\ ~HasEdge("PAGE_LINKS_TO_PAGE", PageId(PageA.url), PageId(PageB.url))

\* the records of a file from position n + 1 on
Suffix(records, n) == SubSeq(records, n + 1, Len(records))

\* C22: an append export leaves the persisted records unchanged as a prefix of
\* each file and writes after them every record derived from the pages of
\* the call, each once, whether or not its id is persisted already; the
\* counts it returns are those of the records it wrote.
C22_AppendWritesAfterPrefix ==
    [][(exports' = exports + 1 /\ last_export'.mode = "append") =>
          /\ Len(nodes_file') >= Len(nodes_file)
          /\ SubSeq(nodes_file', 1, Len(nodes_file)) = nodes_file
          /\ Len(edges_file') >= Len(edges_file)
          /\ SubSeq(edges_file', 1, Len(edges_file)) = edges_file
          /\ Range(Suffix(nodes_file', Len(nodes_file))) = DerivedNodes
          /\ Range(Suffix(edges_file', Len(edges_file))) = DerivedEdges
          /\ DistinctIds(Suffix(nodes_file', Len(nodes_file)))
          /\ DistinctIds(Suffix(edges_file', Len(edges_file)))
          /\ last_export'.counts = Counts(Suffix(nodes_file', Len(nodes_file)),
                                          Suffix(edges_file', Len(edges_file)))]_vars

\* page u1 was persisted and then appended again: its records are in the
\* files twice, and the counts returned are those of one copy
C22_Witness ==
    /\ last_export.mode = "append"
    /\ last_export.pages = <<PageA>>
    /\ prev_export.pages = <<PageA>> /\ prev_export.mode = "merge"
    /\ prev_export.params = last_export.params
    /\ Len(nodes_file) = 2 * last_export.counts.nodes
    /\ Len(edges_file) = 2 * last_export.counts.edges
    /\ ~DistinctIds(nodes_file)
    /\ exports = 2

\* node records a and b agree on the fields the id of their type is hashed from
SameIdInputs(a, b) ==
    /\ a.type = b.type
    /\ a.url = b.url
    /\ a.type \in {"SECTION", "CHUNK"} => a.heading = b.heading
    /\ a.type = "CHUNK" => a.order = b.order /\ a.text = b.text

\* C23: two persisted node records of one type, written by any exports, have
\* the same id when they agree on url (PAGE), on url and heading (SECTION), on
\* url, heading, order and text (CHUNK), whatever their title, retrieved_at,
\* the mode and the other pages of the exports that wrote them; two persisted
\* edge records have the same id when they agree on type, source and target.
C23_IdsDependOnlyOnKeyFields ==
    /\ \A i, j \in 1..Len(nodes_file) :
          SameIdInputs(nodes_file[i], nodes_file[j]) => nodes_file[i].id = nodes_file[j].id
    /\ \A i, j \in 1..Len(edges_file) :
          (/\ edges_file[i].type = edges_file[j].type
           /\ edges_file[i].source = edges_file[j].source
           /\ edges_file[i].target = edges_file[j].target) =>
              edges_file[i].id = edges_file[j].id

\* the files hold two CHUNK records of page u1, written by two exports of
\* different modes and page lists, that agree on url, heading, order and text
\* and differ in title and retrieved_at
C23_Witness ==
    /\ last_export.mode = "append" /\ prev_export.mode = "merge"
    /\ last_export.pages = <<PageA2>> /\ prev_export.pages = <<PageC, PageA, PageC>>
    /\ \E i, j \in 1..Len(nodes_file) :
          /\ nodes_file[i].type = "CHUNK"
          /\ SameIdInputs(nodes_file[i], nodes_file[j])
          /\ nodes_file[i].title # nodes_file[j].title
          /\ nodes_file[i].retrieved_at # nodes_file[j].retrieved_at
          /\ nodes_file[i].id = nodes_file[j].id

\* process p writes the files in this step
WriteStep(p) == writers[p].pc = "loaded" /\ writers'[p].pc = "done"

\* the ids of the records the call of process p derives from its pages
WriterNodeIds(p) ==
    LET w == writers[p]
    IN  UNION {Ids(NodesOfPage(w.pages[i], w.params[1], w.params[2], RetrievedAt(w.at))) :
                 i \in 1..Len(w.pages)}

WriterEdgeIds(p) ==
    LET w == writers[p]
        urls == {w.pages[i].url : i \in 1..Len(w.pages)}
    IN  UNION {Ids(EdgesOfPage(w.pages[i], w.params[1], w.params[2]))
                 \cup Ids(LinkEdgesOfPage(w.pages[i], urls)) : i \in 1..Len(w.pages)}

\* the records of a file that another process added after process p loaded
\* it and that the call of process p does not derive itself
AddedByOther(file, loaded, derived_ids) ==
    {r \in Range(file) : r.id \notin Ids(loaded) /\ r.id \notin derived_ids}

\* C24: when a merge export writes, the records another export added to the
\* files since this one loaded them, and that this one does not derive
\* itself, are gone from the files; when no export wrote between its load and
\* its write (the calls are serialized), the files keep every record they
\* held and hold every id the call derives.
C24_InterleavedMergesLoseRecords ==
    [][\A p \in Writers : WriteStep(p) =>
          /\ AddedByOther(nodes_file, writers[p].nodes0, WriterNodeIds(p))
                 \cap Range(nodes_file') = {}
          /\ AddedByOther(edges_file, writers[p].edges0, WriterEdgeIds(p))
                 \cap Range(edges_file') = {}
          /\ writers[p].at = exports =>
                /\ Range(nodes_file) \subseteq Range(nodes_file')
                /\ Range(edges_file) \subseteq Range(edges_file')
                /\ Ids(nodes_file') = Ids(nodes_file) \cup WriterNodeIds(p)
                /\ Ids(edges_file') = Ids(edges_file) \cup WriterEdgeIds(p)]_vars

\* both processes loaded the empty directory before either wrote; process 1
\* exported pages u1 and u2, process 2 then wrote page u3 and u1, and the PAGE
\* of u2 and the link edges between u1 and u2 are not in the files
C24_Witness ==
    /\ exports = 2
    /\ writers[1].pc = "done" /\ writers[2].pc = "done"
    /\ writers[1].at = 0 /\ writers[2].at = 0
    /\ writers[1].pages = <<PageA, PageB>>
    /\ writers[2].pages = <<PageC, PageA, PageC>>
    /\ HasNode("PAGE", PageId(PageC.url))
    /\ HasNode("PAGE", PageId(PageA.url))
    /\ ~HasNode("PAGE", PageId(PageB.url))
    /\ ~HasEdge("PAGE_LINKS_TO_PAGE", PageId(PageB.url), PageId(PageA.url))

\* the persisted CHUNK nodes of a page
ChunksOfPage(url) ==
    {i \in 1..Len(nodes_file) : nodes_file[i].type = "CHUNK" /\ nodes_file[i].url = url}

\* the persisted NEXT_CHUNK edges that leave or reach a chunk of a page
NextChunkEdgesOfPage(url) ==
    {e \in 1..Len(edges_file) :
        /\ edges_file[e].type = "NEXT_CHUNK"
        /\ \E i \in ChunksOfPage(url) :
              nodes_file[i].id \in {edges_file[e].source, edges_file[e].target}}

\* C29: after an export into empty storage, or a fresh one, every page of the
\* call that has a single section, whose text the splitter cuts into k
\* pieces, has exactly k CHUNK nodes, of orders 0..k-1, and exactly k-1
\* NEXT_CHUNK edges, from the chunk of order n to the chunk of order n+1 for
\* every n in 0..k-2; for a section of 5000 characters with max_chunk_chars =
\* 2000 and overlap_chars = 200, k is 3.
C29_OneSectionGivesOneChain ==
    (exports = 1 \/ last_export.mode = "fresh") =>
        \A p \in 1..Len(last_export.pages) :
            LET page == last_export.pages[p]
                k == Len(split_text(page.chunks[1].text, last_export.params[1],
                                    last_export.params[2]))
                chunk_at(n) == CHOOSE i \in ChunksOfPage(page.url) : nodes_file[i].order = n
            IN  Len(page.chunks) = 1 =>
                  /\ Cardinality(ChunksOfPage(page.url)) = k
                  /\ {nodes_file[i].order : i \in ChunksOfPage(page.url)} = 0..(k - 1)
                  /\ Cardinality(NextChunkEdgesOfPage(page.url)) = k - 1
                  /\ \A n \in 0..(k - 2) :
                        HasEdge("NEXT_CHUNK", nodes_file[chunk_at(n)].id,
                                nodes_file[chunk_at(n + 1)].id)
                  /\ (Len(page.chunks[1].text) = 5000 /\ last_export.params = <<2000, 200>>)
                        => k = 3

\* the page of 5000 characters exported alone with max_chunk_chars = 2000 and
\* overlap_chars = 200: three chunks of 2000, 2000 and 1400 characters and two
\* NEXT_CHUNK edges
C29_Witness ==
    /\ exports = 1
    /\ last_export.pages = <<PageLong>>
    /\ last_export.params = <<2000, 200>>
    /\ last_export.counts.node_types["CHUNK"] = 3
    /\ last_export.counts.edge_types["NEXT_CHUNK"] = 2
    /\ \E i, j, m \in ChunksOfPage(PageLong.url) :
          /\ nodes_file[i].order = 0 /\ Len(nodes_file[i].text) = 2000
          /\ nodes_file[j].order = 1 /\ Len(nodes_file[j].text) = 2000
          /\ nodes_file[m].order = 2 /\ Len(nodes_file[m].text) = 1400

\* C34: after every fresh or merge export no two persisted node records share
\* an id and no two persisted edge records share an id, also when the files
\* held the same id more than once before the export and when the page list
\* holds the same url or the same link twice; the counts returned are then the
\* numbers of distinct ids.
C34_FreshAndMergeLeaveDistinctIds ==
    last_export.mode \in {"fresh", "merge"} =>
        /\ \A i, j \in 1..Len(nodes_file) : nodes_file[i].id = nodes_file[j].id => i = j
        /\ \A i, j \in 1..Len(edges_file) : edges_file[i].id = edges_file[j].id => i = j
        /\ last_export.counts.nodes = Cardinality(last_export.node_ids)
        /\ last_export.counts.edges = Cardinality(last_export.edge_ids)

\* a merge of a page list that holds one page twice, after an append export:
\* every page list of the model has a page of url u1, so the append wrote the
\* id of that PAGE node a second time
C34_Witness ==
    /\ exports = 3
    /\ prev_export.mode = "append"
    /\ last_export.mode = "merge"
    /\ last_export.pages = <<PageC, PageA, PageC>>
    /\ prev_export.pages = <<PageA, PageB>>
    /\ PageId(PageA.url) \in prev_export.node_ids
    /\ Len(nodes_file) = Cardinality(Ids(nodes_file))

\* the node types an edge type joins: <<type of the source, type of the target>>
EndTypes(edge_type) ==
    IF edge_type = "PAGE_CONTAINS_SECTION" THEN <<"PAGE", "SECTION">>
    ELSE IF edge_type = "SECTION_CONTAINS_CHUNK" THEN <<"SECTION", "CHUNK">>
    ELSE IF edge_type = "NEXT_CHUNK" THEN <<"CHUNK", "CHUNK">>
    ELSE <<"PAGE", "PAGE">>

\* C35: after any sequence of exports in any mode from empty storage, every
\* persisted edge has a source and a target that are ids of persisted nodes,
\* of the node types its edge type joins (PAGE to SECTION, SECTION to CHUNK,
\* CHUNK to CHUNK, PAGE to PAGE).
C35_EdgesJoinPersistedNodes ==
    \A k \in 1..Len(edges_file) :
        /\ edges_file[k].type \in EdgeTypes
        /\ HasNode(EndTypes(edges_file[k].type)[1], edges_file[k].source)
        /\ HasNode(EndTypes(edges_file[k].type)[2], edges_file[k].target)

\* three exports, an append and a merge the last two of them, that leave edges
\* of the four types in the file
C35_Witness ==
    /\ exports = 3
    /\ {"append", "merge"} \subseteq {prev_export.mode, last_export.mode}
    /\ \A t \in EdgeTypes : \E k \in 1..Len(edges_file) : edges_file[k].type = t

\* the ids of the chunks the call makes of the sections of the page under heading
ChunkIdsOfHeading(page, prm, heading) ==
    LET page_chunks == split_chunks(page.chunks, prm[1], prm[2])
    IN  {ChunkIdAt(page, page_chunks, i) :
            i \in {j \in 1..Len(page_chunks) : page_chunks[j].heading = heading}}

\* q is p with the same url and headings, section k unchanged and the text of
\* another section changed so that it splits into another number of pieces
OtherSectionResplit(p, q, prm, k) ==
    /\ p.url = q.url
    /\ Len(p.chunks) = Len(q.chunks)
    /\ \A i \in 1..Len(p.chunks) : p.chunks[i].heading = q.chunks[i].heading
    /\ p.chunks[k] = q.chunks[k]
    /\ \E i \in 1..Len(p.chunks) :
          /\ i # k
          /\ Len(split_text(p.chunks[i].text, prm[1], prm[2]))
               # Len(split_text(q.chunks[i].text, prm[1], prm[2]))

\* C36: the ids of the chunks of a section depend only on the page url, the
\* section's heading and the section's text: when a page is exported again in
\* merge mode after another of its sections changed and splits into another
\* number of pieces, the unchanged section adds no CHUNK node and no
\* SECTION_CONTAINS_CHUNK edge to the files.
C36_UnchangedSectionAddsNothing ==
    (/\ last_export.mode = "merge" /\ prev_export.mode # "none"
     /\ Len(last_export.pages) = 1 /\ Len(prev_export.pages) = 1
     /\ last_export.params = prev_export.params) =>
        LET p == prev_export.pages[1]
            q == last_export.pages[1]
            prm == last_export.params
        IN  \A k \in 1..Len(q.chunks) :
                OtherSectionResplit(p, q, prm, k) =>
                    /\ ChunkIdsOfHeading(q, prm, q.chunks[k].heading)
                          = ChunkIdsOfHeading(p, prm, p.chunks[k].heading)
                    /\ ChunkIdsOfHeading(q, prm, q.chunks[k].heading)
                          \subseteq prev_export.node_ids
                    /\ \A e \in 1..Len(edges_file) :
                          (/\ edges_file[e].type = "SECTION_CONTAINS_CHUNK"
                           /\ edges_file[e].target
                                \in ChunkIdsOfHeading(q, prm, q.chunks[k].heading))
                          => edges_file[e].id \in prev_export.edge_ids

\* ------------------------------------------------------------------------
\* specifications: one per component, the others idle
\* ------------------------------------------------------------------------

InitCrawlSpec == InitCrawl /\ FetcherUnused /\ SplitterUnused /\ ExporterUnused
SpecCrawl == InitCrawlSpec /\ [][NextCrawl]_vars
\* the loop is straight-line code around fetcher calls that return: a pass
\* that can be taken is taken
SpecCrawlFair == SpecCrawl /\ WF_vars(NextCrawl)

InitFetchSpec == InitFetch /\ CrawlerUnused /\ SplitterUnused /\ ExporterUnused
SpecFetch == InitFetchSpec /\ [][NextFetch]_vars

InitSplitSpec == InitSplit /\ CrawlerUnused /\ FetcherUnused /\ ExporterUnused
SpecSplit == InitSplitSpec /\ [][NextSplit]_vars

\* the loop runs in one thread and nothing it calls can block: a pass that can
\* be taken is taken
SpecSplitLoop == InitSplitSpec /\ [][NextSplitLoop]_vars /\ WF_vars(NextSplitLoop)

InitExportSpec == InitExport /\ CrawlerUnused /\ FetcherUnused /\ SplitterUnused
SpecExport == InitExportSpec /\ [][NextExport]_vars
SpecExportFreshOrMerge == InitExportSpec /\ [][NextExportFreshOrMerge]_vars
SpecExportOneSection == InitExportSpec /\ [][NextExportOneSection]_vars
SpecExportConcurrent == InitExportSpec /\ [][NextExportConcurrent]_vars
SpecExportSectionChange == InitExportSpec /\ [][NextExportSectionChange]_vars

====
